---- MODULE Spec2Model ----
(***************************************************************************)
(* Sheetpilot: the cell-grid action engine (server/src/services/           *)
(* excelService.js, aiService.js) and the windowed read / single-cell      *)
(* write path (excelService.js, controllers/excelController.js).           *)
(*                                                                         *)
(* Text is a sequence of one-character strings, so that trim, case         *)
(* folding, parsing and formatting are computed.  A cell value is a record *)
(* with one shape for all kinds (TLC compares records field by field).     *)
(***************************************************************************)
EXTENDS Integers, Sequences, FiniteSets, TLC

(***************************************************************************)
(* Bounds of the model                                                     *)
(***************************************************************************)
\* longest list of actions one AI command is answered with
MaxBatch == 2
\* the clock read by Date.now() runs from 1 to MaxNow
MaxNow == 2

(***************************************************************************)
(* Characters and text                                                     *)
(***************************************************************************)
Upper == << "A","B","C","D","E","F","G","H","I","J","K","L","M",
            "N","O","P","Q","R","S","T","U","V","W","X","Y","Z" >>
Lower == << "a","b","c","d","e","f","g","h","i","j","k","l","m",
            "n","o","p","q","r","s","t","u","v","w","x","y","z" >>
Digit == << "0","1","2","3","4","5","6","7","8","9" >>
\* the characters of the model in UTF-16 code unit order
CodeOrder == << " ", "!", "\"", "(", ")", "*", "+", ",", "-", "/" >> \o Digit
             \o << ":", "<", "=", ">" >> \o Upper \o << "[", "]", "_" >> \o Lower
             \o << "{", "}" >>

IndexIn(seq, c) == IF \E i \in 1..Len(seq) : seq[i] = c
                   THEN CHOOSE i \in 1..Len(seq) : seq[i] = c
                   ELSE 0

IsUpper(c) == IndexIn(Upper, c) > 0
IsLower(c) == IndexIn(Lower, c) > 0
IsDigit(c) == IndexIn(Digit, c) > 0
IsLetter(c) == IsUpper(c) \/ IsLower(c)
\* \w of a JavaScript regular expression
IsWordChar(c) == IsLetter(c) \/ IsDigit(c) \/ c = "_"
DigitVal(c) == IndexIn(Digit, c) - 1
CharCode(c) == IndexIn(CodeOrder, c)

ToLowerChar(c) == IF IsUpper(c) THEN Lower[IndexIn(Upper, c)] ELSE c
\* String.prototype.toLowerCase
ToLower(s) == [i \in 1..Len(s) |-> ToLowerChar(s[i])]

RECURSIVE TrimStart(_)
TrimStart(s) == IF s # <<>> /\ Head(s) = " " THEN TrimStart(Tail(s)) ELSE s
RECURSIVE TrimEnd(_)
TrimEnd(s) == IF s # <<>> /\ s[Len(s)] = " "
              THEN TrimEnd(SubSeq(s, 1, Len(s) - 1)) ELSE s
\* String.prototype.trim
Trim(s) == TrimEnd(TrimStart(s))

\* a < b as JavaScript compares strings (by code unit, a proper prefix first)
RECURSIVE StrLess(_, _)
StrLess(a, b) ==
    IF b = <<>> THEN FALSE
    ELSE IF a = <<>> THEN TRUE
    ELSE IF Head(a) = Head(b) THEN StrLess(Tail(a), Tail(b))
    ELSE CharCode(Head(a)) < CharCode(Head(b))

\* position of the first occurrence of pat in s at or after i, 0 if none
RECURSIVE IndexOfFrom(_, _, _)
IndexOfFrom(s, pat, i) ==
    IF i + Len(pat) - 1 > Len(s) THEN 0
    ELSE IF SubSeq(s, i, i + Len(pat) - 1) = pat THEN i
    ELSE IndexOfFrom(s, pat, i + 1)
\* String.prototype.includes
Includes(s, pat) == IndexOfFrom(s, pat, 1) > 0

\* String.prototype.split(sep) for a non-empty separator
RECURSIVE Split(_, _)
Split(s, sep) ==
    LET k == IndexOfFrom(s, sep, 1) IN
    IF k = 0 THEN << s >>
    ELSE << SubSeq(s, 1, k - 1) >> \o Split(SubSeq(s, k + Len(sep), Len(s)), sep)

RECURSIVE Concat(_)
Concat(ss) == IF ss = <<>> THEN <<>> ELSE Head(ss) \o Concat(Tail(ss))

(***************************************************************************)
(* Numbers and text: parsing and formatting as JavaScript does them, for   *)
(* the integers and the integer numerals of the model                      *)
(***************************************************************************)
NaN == [ok |-> FALSE, n |-> 0]
Finite(n) == [ok |-> TRUE, n |-> n]

RECURSIVE DigitsToNat(_, _)
DigitsToNat(s, acc) ==
    IF s = <<>> THEN acc ELSE DigitsToNat(Tail(s), 10 * acc + DigitVal(Head(s)))

RECURSIVE DigitPrefix(_)
DigitPrefix(s) ==
    IF s # <<>> /\ IsDigit(Head(s)) THEN << Head(s) >> \o DigitPrefix(Tail(s))
    ELSE <<>>

AllDigits(s) == \A i \in 1..Len(s) : IsDigit(s[i])

\* Number(string): the whole trimmed text must be a numeral; "" is 0
StringToNumber(s) ==
    LET t == Trim(s)
        neg == t # <<>> /\ Head(t) = "-"
        body == IF t # <<>> /\ Head(t) \in {"-", "+"} THEN Tail(t) ELSE t
    IN  IF t = <<>> THEN Finite(0)
        ELSE IF body # <<>> /\ AllDigits(body)
             THEN Finite(IF neg THEN 0 - DigitsToNat(body, 0) ELSE DigitsToNat(body, 0))
             ELSE NaN

\* parseFloat(string): the longest numeral the trimmed text starts with
ParseFloatString(s) ==
    LET t == TrimStart(s)
        neg == t # <<>> /\ Head(t) = "-"
        body == IF t # <<>> /\ Head(t) \in {"-", "+"} THEN Tail(t) ELSE t
        ds == DigitPrefix(body)
    IN  IF ds = <<>> THEN NaN
        ELSE Finite(IF neg THEN 0 - DigitsToNat(ds, 0) ELSE DigitsToNat(ds, 0))

RECURSIVE NatToString(_)
NatToString(n) ==
    IF n < 10 THEN << Digit[n + 1] >>
    ELSE NatToString(n \div 10) \o << Digit[(n % 10) + 1] >>
\* Number.prototype.toString
NumberToString(n) == IF n < 0 THEN << "-" >> \o NatToString(0 - n) ELSE NatToString(n)

(***************************************************************************)
(* Cell values (ExcelJS cell.value) and action parameters (JSON values)    *)
(*   null     an unset cell                                                *)
(*   undef    an absent parameter                                          *)
(*   num      n                                                            *)
(*   str      s                                                            *)
(*   bool     true (n = 1) or false (n = 0)                                *)
(*   date     a Date, n milliseconds after the epoch                       *)
(*   formula  { formula: s, result }: rt is "none" without a cached        *)
(*            result, else the result is the number rn or the string rs    *)
(*   rich     { richText: [{ text }, ...] }: the texts of the runs         *)
(*   link     { text: s, hyperlink: rs }                                   *)
(***************************************************************************)
Mk(t, n, s) == [t |-> t, n |-> n, s |-> s, rt |-> "none", rn |-> 0, rs |-> <<>>,
                runs |-> <<>>]
Null == Mk("null", 0, <<>>)
Undef == Mk("undef", 0, <<>>)
Num(n) == Mk("num", n, <<>>)
Str(s) == Mk("str", 0, s)
Bool(b) == Mk("bool", IF b THEN 1 ELSE 0, <<>>)
DateV(ms) == Mk("date", ms, <<>>)
Formula(text) == Mk("formula", 0, text)
FormulaNum(text, n) == [Formula(text) EXCEPT !.rt = "num", !.rn = n]
FormulaStr(text, s) == [Formula(text) EXCEPT !.rt = "str", !.rs = s]
Rich(runs) == [Mk("rich", 0, <<>>) EXCEPT !.runs = runs]
Link(text, url) == [Mk("link", 0, text) EXCEPT !.rs = url]

\* value == null  (null or undefined)
IsNullish(v) == v.t \in {"null", "undef"}
IsObject(v) == v.t \in {"formula", "rich", "link"}

\* the truthiness of a value
Truthy(v) ==
    CASE v.t = "num" -> v.n # 0
      [] v.t = "str" -> v.s # <<>>
      [] v.t = "bool" -> v.n # 0
      [] v.t \in {"null", "undef"} -> FALSE
      [] OTHER -> TRUE

sObjectObject == << "[","o","b","j","e","c","t"," ","O","b","j","e","c","t","]" >>
sNullWord == << "n","u","l","l" >>
sUndefinedWord == << "u","n","d","e","f","i","n","e","d" >>
sTrueWord == << "t","r","u","e" >>
sFalseWord == << "f","a","l","s","e" >>
\* Date.prototype.toString of an instant within the epoch's first second (UTC)
sEpochText == << "T","h","u"," ","J","a","n"," ","0","1"," ","1","9","7","0"," ",
                 "0","0",":","0","0",":","0","0"," ","G","M","T","+","0","0","0","0" >>
sEpochIsoHead == << "1","9","7","0","-","0","1","-","0","1","T",
                    "0","0",":","0","0",":","0","0","." >>

\* value.toString(), String(value)
ValueToString(v) ==
    CASE v.t = "num" -> NumberToString(v.n)
      [] v.t = "str" -> v.s
      [] v.t = "bool" -> IF v.n = 1 THEN sTrueWord ELSE sFalseWord
      [] v.t = "date" -> sEpochText
      [] v.t = "null" -> sNullWord
      [] v.t = "undef" -> sUndefinedWord
      [] OTHER -> sObjectObject

\* Date.prototype.toISOString of an instant within the epoch's first second
ToISOString(ms) ==
    LET d == NatToString(ms)
        pad == IF Len(d) = 1 THEN << "0", "0" >> ELSE IF Len(d) = 2 THEN << "0" >> ELSE <<>>
    IN  sEpochIsoHead \o pad \o d \o << "Z" >>

\* Number(value)
ToNumber(v) ==
    CASE v.t = "num" -> Finite(v.n)
      [] v.t = "str" -> StringToNumber(v.s)
      [] v.t = "bool" -> Finite(v.n)
      [] v.t = "date" -> Finite(v.n)
      [] v.t = "null" -> Finite(0)
      [] OTHER -> NaN

\* parseFloat(value)
ParseFloat(v) == IF v.t = "num" THEN Finite(v.n) ELSE ParseFloatString(ValueToString(v))

\* a == b for a cell value a and a JSON number, string or boolean b; a
\* boolean operand is compared as the number it converts to
LooseEq(a, b) ==
    CASE IsNullish(a) -> IsNullish(b)
      [] IsNullish(b) -> FALSE
      [] a.t = "bool" /\ b.t \in {"bool", "num"} -> a.n = b.n
      [] a.t = "bool" /\ b.t = "str" ->
            LET x == StringToNumber(b.s) IN x.ok /\ x.n = a.n
      [] b.t = "bool" /\ a.t = "num" -> a.n = b.n
      [] b.t = "bool" /\ a.t = "str" ->
            LET x == StringToNumber(a.s) IN x.ok /\ x.n = b.n
      [] b.t = "bool" -> FALSE
      [] a.t = "num" /\ b.t = "num" -> a.n = b.n
      [] a.t = "str" /\ b.t = "str" -> a.s = b.s
      [] a.t = "num" /\ b.t = "str" ->
            LET x == StringToNumber(b.s) IN x.ok /\ x.n = a.n
      [] a.t = "str" /\ b.t = "num" ->
            LET x == StringToNumber(a.s) IN x.ok /\ x.n = b.n
      [] b.t = "str" -> ValueToString(a) = b.s
      [] OTHER -> LET x == StringToNumber(ValueToString(a)) IN x.ok /\ x.n = b.n

\* the "loose matching" the handlers share:
\*   a == b || (a && b && a.toString().trim().toLowerCase() === b. ... )
LooseMatch(a, b) ==
    \/ LooseEq(a, b)
    \/ /\ Truthy(a)
       /\ Truthy(b)
       /\ ToLower(Trim(ValueToString(a))) = ToLower(Trim(ValueToString(b)))

\* JSON.stringify of an object cell value
Quoted(s) == << "\"" >> \o s \o << "\"" >>
RECURSIVE RunsJson(_)
RunsJson(runs) ==
    IF runs = <<>> THEN <<>>
    ELSE << "{" >> \o Quoted(<< "t","e","x","t" >>) \o << ":" >> \o Quoted(Head(runs))
         \o << "}" >> \o (IF Len(runs) > 1 THEN << "," >> ELSE <<>>) \o RunsJson(Tail(runs))
JsonStringify(v) ==
    CASE v.t = "formula" ->
            << "{" >> \o Quoted(<< "f","o","r","m","u","l","a" >>) \o << ":" >>
            \o Quoted(v.s) \o << "}" >>
      [] v.t = "rich" ->
            << "{" >> \o Quoted(<< "r","i","c","h","T","e","x","t" >>) \o << ":", "[" >>
            \o RunsJson(v.runs) \o << "]", "}" >>
      [] v.t = "link" ->
            << "{" >> \o Quoted(<< "t","e","x","t" >>) \o << ":" >> \o Quoted(v.s)
            \o << "," >> \o Quoted(<< "h","y","p","e","r","l","i","n","k" >>) \o << ":" >>
            \o Quoted(v.rs) \o << "}" >>
      [] OTHER -> ValueToString(v)

(***************************************************************************)
(* Workbooks (ExcelJS).  A worksheet is sparse: cells maps the positions   *)
(* <<row, col>> that hold a value (never a nullish one) to it, fill maps   *)
(* the positions that carry a fill to its colour.  A workbook is the       *)
(* sequence of its worksheets in tab order.                                *)
(***************************************************************************)
Min(S) == CHOOSE x \in S : \A y \in S : x <= y
Max(S) == CHOOSE x \in S : \A y \in S : y <= x

RECURSIVE Ascending(_)
Ascending(S) == IF S = {} THEN <<>> ELSE << Min(S) >> \o Ascending(S \ {Min(S)})

Sheet(name, cells) == [name |-> name, cells |-> cells,
                       fill |-> [rc \in {} |-> <<>>]]

\* cell.value of worksheet.getCell(r, c) / row.getCell(c)
Get(ws, r, c) == IF << r, c >> \in DOMAIN ws.cells THEN ws.cells[<< r, c >>] ELSE Null

\* cell.value = v
SetValue(ws, r, c, v) ==
    LET dom == IF IsNullish(v) THEN DOMAIN ws.cells \ {<< r, c >>}
               ELSE DOMAIN ws.cells \cup {<< r, c >>}
    IN  [ws EXCEPT !.cells = [rc \in dom |-> IF rc = << r, c >> THEN v ELSE ws.cells[rc]]]

\* the row numbers worksheet.eachRow visits (rows with a value), ascending
EachRow(ws) == Ascending({rc[1] : rc \in DOMAIN ws.cells})
\* the column numbers row.eachCell visits (cells with a value), ascending
EachCell(ws, r) == Ascending({rc[2] : rc \in {x \in DOMAIN ws.cells : x[1] = r}})
RowNumbers(ws) == {rc[1] : rc \in DOMAIN ws.cells}
ColNumbers(ws, r) == {rc[2] : rc \in {x \in DOMAIN ws.cells : x[1] = r}}

\* row.cellCount: the highest column of the row that has a cell
CellCount(ws, r) ==
    LET cols == {rc[2] : rc \in {x \in DOMAIN ws.cells \cup DOMAIN ws.fill : x[1] = r}}
    IN  IF cols = {} THEN 0 ELSE Max(cols)

\* row.values: the values of the row by column number
RowValues(ws, r) == [c \in ColNumbers(ws, r) |-> ws.cells[<< r, c >>]]

\* row.values = vals: the row's former cells (and their styles) are dropped
SetRowValues(ws, r, vals) ==
    LET keep == {rc \in DOMAIN ws.cells : rc[1] # r}
        new == {<< r, c >> : c \in DOMAIN vals}
        keepFill == {rc \in DOMAIN ws.fill : rc[1] # r}
    IN  [ws EXCEPT !.cells = [rc \in keep \cup new |->
                                IF rc[1] = r THEN vals[rc[2]] ELSE ws.cells[rc]],
                   !.fill = [rc \in keepFill |-> ws.fill[rc]]]

\* workbook.getWorksheet(name): the position of the sheet of that name, 0 if none
SheetIndex(wb, name) ==
    IF \E i \in 1..Len(wb) : wb[i].name = name
    THEN Min({i \in 1..Len(wb) : wb[i].name = name})
    ELSE 0
SheetNames(wb) == [i \in 1..Len(wb) |-> wb[i].name]

\* what a handler hands back: the worksheet as it left it, or the Error thrown
Done(ws) == [ok |-> TRUE, ws |-> ws, err |-> "none"]
Threw(ws, msg) == [ok |-> FALSE, ws |-> ws, err |-> msg]

(***************************************************************************)
(* getColumnIndex: the first cell, by row then by column, within the first *)
(* scanDepth rows whose text is the name, both trimmed and lower-cased     *)
(***************************************************************************)
ScanDepth == 20

getColumnIndex(ws, name) ==
    LET hits == {rc \in DOMAIN ws.cells :
                    /\ rc[1] <= ScanDepth
                    /\ Truthy(ws.cells[rc])
                    /\ ToLower(Trim(ValueToString(ws.cells[rc]))) = ToLower(Trim(name))}
    IN  IF hits = {} THEN [colIndex |-> -1, foundAtRow |-> -1]
        ELSE LET r == Min({rc[1] : rc \in hits})
                 c == Min({rc[2] : rc \in {x \in hits : x[1] = r}})
             IN  [colIndex |-> c, foundAtRow |-> r]

(***************************************************************************)
(* colLetter: a column number in spreadsheet letters (1 A, 26 Z, 27 AA)    *)
(***************************************************************************)
RECURSIVE colLetter(_)
colLetter(col) ==
    IF col > 0
    THEN LET temp == (col - 1) % 26
         IN  colLetter((col - temp - 1) \div 26) \o << Upper[temp + 1] >>
    ELSE <<>>

(***************************************************************************)
(* text.replace(new RegExp(`\\b${header}\\b`, 'gi'), repl), for a header   *)
(* of letters, digits, spaces and "-" (no regular-expression operator)     *)
(***************************************************************************)
WordAt(text, p) == p >= 1 /\ p <= Len(text) /\ IsWordChar(text[p])
\* \b between positions p-1 and p
Boundary(text, p) == WordAt(text, p - 1) # WordAt(text, p)
MatchAt(text, header, i) ==
    /\ i + Len(header) - 1 <= Len(text)
    /\ ToLower(SubSeq(text, i, i + Len(header) - 1)) = ToLower(header)
    /\ Boundary(text, i)
    /\ Boundary(text, i + Len(header))
RECURSIVE ReplaceFrom(_, _, _, _)
ReplaceFrom(text, header, repl, i) ==
    IF i > Len(text) THEN <<>>
    ELSE IF header # <<>> /\ MatchAt(text, header, i)
         THEN repl \o ReplaceFrom(text, header, repl, i + Len(header))
         ELSE << text[i] >> \o ReplaceFrom(text, header, repl, i + 1)
ReplaceWord(text, header, repl) == ReplaceFrom(text, header, repl, 1)

(***************************************************************************)
(* addColumn                                                               *)
(***************************************************************************)
\* a property key that is an array index: Object.keys lists these first
IsIndexKey(k) == k # <<>> /\ AllDigits(k) /\ (Len(k) = 1 \/ Head(k) # "0")

\* headers: lower-cased text of each cell of row 1 -> its column (the last wins)
HeaderKey(ws, c) == ToLower(ValueToString(ws.cells[<< 1, c >>]))
HeaderCol(ws, key) == Max({c \in ColNumbers(ws, 1) : HeaderKey(ws, c) = key})

\* Object.keys(headers): index keys by value, then the others as first inserted
RECURSIVE IndexKeysAscending(_)
IndexKeysAscending(ns) ==
    IF ns = {} THEN <<>>
    ELSE << NatToString(Min(ns)) >> \o IndexKeysAscending(ns \ {Min(ns)})
RECURSIVE KeysAsInserted(_, _, _)
KeysAsInserted(ws, cols, seen) ==
    IF cols = <<>> THEN <<>>
    ELSE LET k == HeaderKey(ws, Head(cols)) IN
         IF IsIndexKey(k) \/ k \in seen
         THEN KeysAsInserted(ws, Tail(cols), seen)
         ELSE << k >> \o KeysAsInserted(ws, Tail(cols), seen \cup {k})
HeaderKeys(ws) ==
    LET idx == {DigitsToNat(HeaderKey(ws, c), 0) :
                    c \in {x \in ColNumbers(ws, 1) : IsIndexKey(HeaderKey(ws, x))}}
    IN  IndexKeysAscending(idx) \o KeysAsInserted(ws, EachCell(ws, 1), {})

\* the formula of row rowNumber: each header in turn replaced by its cell
RECURSIVE RewriteFormula(_, _, _, _)
RewriteFormula(ws, keys, formula, rowNumber) ==
    IF keys = <<>> THEN formula
    ELSE RewriteFormula(ws, Tail(keys),
            ReplaceWord(formula, Head(keys),
                        colLetter(HeaderCol(ws, Head(keys))) \o NatToString(rowNumber)),
            rowNumber)

RECURSIVE AddFormulas(_, _, _, _, _)
AddFormulas(ws, rows, keys, formula, nextCol) ==
    IF rows = <<>> THEN ws
    ELSE AddFormulas(
            IF Head(rows) = 1 THEN ws
            ELSE SetValue(ws, Head(rows), nextCol,
                          Formula(RewriteFormula(ws, keys, formula, Head(rows)))),
            Tail(rows), keys, formula, nextCol)

addColumn(ws, params) ==
    LET nextCol == CellCount(ws, 1) + 1
        ws1 == SetValue(ws, 1, nextCol, params.columnName)
    IN  Done(AddFormulas(ws1, EachRow(ws1), HeaderKeys(ws1), params.formula.s, nextCol))

(***************************************************************************)
(* highlightRows                                                           *)
(***************************************************************************)
operators == << << ">", "=" >>, << "<", "=" >>, << "!", "=" >>, << ">" >>, << "<" >>,
                << "=" >> >>
sFFFF00 == << "F","F","F","F","0","0" >>

\* operators.find(op => condition.includes(op)): its position, 0 if none
FindOperator(condition) ==
    IF \E i \in 1..Len(operators) : Includes(condition, operators[i])
    THEN Min({i \in 1..Len(operators) : Includes(condition, operators[i])})
    ELSE 0

\* the comparison of a cell's number with the threshold (which may be NaN)
Compare(op, numVal, threshold) ==
    CASE op = << ">" >> -> threshold.ok /\ numVal > threshold.n
      [] op = << "<" >> -> threshold.ok /\ numVal < threshold.n
      [] op = << ">", "=" >> -> threshold.ok /\ numVal >= threshold.n
      [] op = << "<", "=" >> -> threshold.ok /\ numVal <= threshold.n
      [] op = << "=" >> -> threshold.ok /\ numVal = threshold.n
      [] op = << "!", "=" >> -> ~threshold.ok \/ numVal # threshold.n
      [] OTHER -> FALSE

\* cell.fill = ... for every cell with a value of the rows given
FillRows(ws, rows, colour) ==
    LET hit == {rc \in DOMAIN ws.cells : rc[1] \in rows}
    IN  [ws EXCEPT !.fill = [rc \in DOMAIN ws.fill \cup hit |->
                                IF rc \in hit THEN colour ELSE ws.fill[rc]]]

highlightRows(ws, params) ==
    LET condition == params.condition.s
        k == FindOperator(condition)
    IN  IF k = 0 THEN Done(ws)
        ELSE
        LET operator == operators[k]
            parts == Split(condition, operator)
            colName == Trim(parts[1])
            value == Trim(parts[2])
            colIndex == getColumnIndex(ws, colName).colIndex
            threshold == ParseFloatString(value)
            colour == IF Truthy(params.color) THEN params.color.s ELSE sFFFF00
            matching == {r \in RowNumbers(ws) :
                            /\ r # 1
                            /\ LET numVal == ParseFloat(Get(ws, r, colIndex))
                               IN  numVal.ok /\ Compare(operator, numVal.n, threshold)}
        IN  IF colIndex = -1 THEN Done(ws) ELSE Done(FillRows(ws, matching, colour))

(***************************************************************************)
(* sortData                                                                *)
(***************************************************************************)
sDesc == << "d","e","s","c" >>
sAsc == << "a","s","c" >>
Sign(n) == IF n < 0 THEN -1 ELSE IF n > 0 THEN 1 ELSE 0

\* (a variant that treats a missing key as the smallest key, so that desc
\* puts it last and asc first)
SortCompareNullSmallest(valA, valB, order) ==
    LET numA == IF IsNullish(valA) THEN -1 ELSE ToNumber(valA).n
        numB == IF IsNullish(valB) THEN -1 ELSE ToNumber(valB).n
    IN  IF order = sDesc THEN Sign(numB - numA) ELSE Sign(numA - numB)
\* the comparator given to rows.sort
SortCompare(valA, valB, order) ==
    LET numA == ToNumber(valA)
        numB == ToNumber(valB)
        isNumA == numA.ok /\ Trim(ValueToString(valA)) # <<>>
        isNumB == numB.ok /\ Trim(ValueToString(valB)) # <<>>
        strA == ToLower(ValueToString(valA))
        strB == ToLower(ValueToString(valB))
    IN  IF IsNullish(valA) /\ IsNullish(valB) THEN 0
        ELSE IF IsNullish(valA) THEN 1
        ELSE IF IsNullish(valB) THEN -1
        ELSE IF isNumA /\ isNumB
             THEN (IF order = sDesc THEN Sign(numB.n - numA.n) ELSE Sign(numA.n - numB.n))
        ELSE IF StrLess(strB, strA) THEN (IF order = sDesc THEN -1 ELSE 1)
        ELSE IF StrLess(strA, strB) THEN (IF order = sDesc THEN 1 ELSE -1)
        ELSE 0

\* (a variant that is not stable: an element goes before those equal to it)
RECURSIVE InsertRowBeforeEqual(_, _, _, _, _)
InsertRowBeforeEqual(ws, colIndex, order, sorted, r) ==
    IF sorted = <<>> THEN << r >>
    ELSE IF SortCompare(Get(ws, sorted[Len(sorted)], colIndex), Get(ws, r, colIndex),
                        order) >= 0
         THEN InsertRowBeforeEqual(ws, colIndex, order, SubSeq(sorted, 1, Len(sorted) - 1), r)
              \o << sorted[Len(sorted)] >>
         ELSE sorted \o << r >>
\* Array.prototype.sort is stable: an element goes behind those not greater
RECURSIVE InsertRow(_, _, _, _, _)
InsertRow(ws, colIndex, order, sorted, r) ==
    IF sorted = <<>> THEN << r >>
    ELSE IF SortCompare(Get(ws, sorted[Len(sorted)], colIndex), Get(ws, r, colIndex),
                        order) > 0
         THEN InsertRow(ws, colIndex, order, SubSeq(sorted, 1, Len(sorted) - 1), r)
              \o << sorted[Len(sorted)] >>
         ELSE sorted \o << r >>
RECURSIVE SortRows(_, _, _, _, _)
SortRows(ws, colIndex, order, sorted, rest) ==
    IF rest = <<>> THEN sorted
    ELSE SortRows(ws, colIndex, order,
                  InsertRow(ws, colIndex, order, sorted, Head(rest)), Tail(rest))

\* (a variant that writes the sorted rows one under the other from the first
\* target row on, whatever the row numbers they were read from)
RECURSIVE WriteRowsContiguous(_, _, _, _, _)
WriteRowsContiguous(ws, old, targets, sorted, i) ==
    IF i > Len(targets) THEN ws
    ELSE WriteRowsContiguous(SetRowValues(ws, targets[1] + i - 1, RowValues(old, sorted[i])),
                             old, targets, sorted, i + 1)
\* targetRow.values = sortedRow.values, for the i-th target row and up
RECURSIVE WriteRows(_, _, _, _, _)
WriteRows(ws, old, targets, sorted, i) ==
    IF i > Len(targets) THEN ws
    ELSE WriteRows(SetRowValues(ws, targets[i], RowValues(old, sorted[i])),
                   old, targets, sorted, i + 1)

sortData(ws, params) ==
    LET found == getColumnIndex(ws, params.column.s)
        rows == Ascending({r \in RowNumbers(ws) : r > found.foundAtRow})
        sorted == SortRows(ws, found.colIndex, params.order.s, <<>>, rows)
    IN  IF found.colIndex = -1 THEN Threw(ws, "Column not found")
        ELSE IF rows = <<>> THEN Done(ws)
        ELSE Done(WriteRows(ws, ws, rows, sorted, 1))

(***************************************************************************)
(* updateKeyValue                                                          *)
(***************************************************************************)
\* targetCell.value = value for the rows given, one cell a row
RECURSIVE SetInRows(_, _, _, _)
SetInRows(ws, rows, col, value) ==
    IF rows = <<>> THEN ws
    ELSE SetInRows(SetValue(ws, Head(rows), col, value), Tail(rows), col, value)

\* (a variant that finds the rows and leaves their cells as they were)
updateKeyValueNoWrite(ws, params) ==
    IF getColumnIndex(ws, params.keyColumn.s).colIndex = -1
    THEN Threw(ws, "Key Column not found")
    ELSE Done(ws)

\* (a variant that skips the header row of the key column, as the handlers
\* for tables do)
updateKeyValueBelowHeader(ws, params) ==
    LET key == getColumnIndex(ws, params.keyColumn.s)
        found == IF Truthy(params.valueColumn)
                 THEN getColumnIndex(ws, params.valueColumn.s).colIndex
                 ELSE -1
        valColIndex == IF found = -1 THEN key.colIndex + 1 ELSE found
        updated == {r \in RowNumbers(ws) :
                       /\ r # key.foundAtRow
                       /\ \/ LooseMatch(Get(ws, r, key.colIndex), params.keyValue)
                          \/ LooseMatch(Get(ws, r, valColIndex), params.keyValue)}
    IN  IF key.colIndex = -1 THEN Threw(ws, "Key Column not found")
        ELSE IF updated = {} THEN Threw(ws, "No rows updated")
        ELSE Done(SetInRows(ws, Ascending(updated), valColIndex, params.newValue))

updateKeyValue(ws, params) ==
    LET keyColIndex == getColumnIndex(ws, params.keyColumn.s).colIndex
        found == IF Truthy(params.valueColumn)
                 THEN getColumnIndex(ws, params.valueColumn.s).colIndex
                 ELSE -1
        valColIndex == IF found = -1 THEN keyColIndex + 1 ELSE found
        updated == {r \in RowNumbers(ws) :
                       \/ LooseMatch(Get(ws, r, keyColIndex), params.keyValue)
                       \/ LooseMatch(Get(ws, r, valColIndex), params.keyValue)}
    IN  IF keyColIndex = -1 THEN Threw(ws, "Key Column not found")
        ELSE IF updated = {} THEN Threw(ws, "No rows updated")
        ELSE Done(SetInRows(ws, Ascending(updated), valColIndex, params.newValue))

(***************************************************************************)
(* setCell: worksheet.getCell(address) decodes the address as ExcelJS's    *)
(* colCache.decodeAddress does (capital letters, then digits)              *)
(***************************************************************************)
RECURSIVE DecodeFrom(_, _, _)
DecodeFrom(value, i, acc) ==
    IF i > Len(value) THEN acc
    ELSE LET c == value[i] IN
         IF ~acc.hasRow /\ IsUpper(c)
         THEN DecodeFrom(value, i + 1,
                [acc EXCEPT !.hasCol = TRUE, !.col = acc.col * 26 + IndexIn(Upper, c)])
         ELSE IF IsDigit(c)
         THEN DecodeFrom(value, i + 1,
                [acc EXCEPT !.hasRow = TRUE, !.row = acc.row * 10 + DigitVal(c)])
         ELSE IF acc.hasRow /\ acc.hasCol THEN acc
         ELSE DecodeFrom(value, i + 1, acc)
decodeAddress(value) ==
    DecodeFrom(value, 1, [hasCol |-> FALSE, col |-> 0, hasRow |-> FALSE, row |-> 0])

setCell(ws, params) ==
    LET a == decodeAddress(params.cell.s)
    IN  IF a.hasCol /\ a.col > 16384 THEN Threw(ws, "Out of bounds")
        ELSE IF ~a.hasCol \/ ~a.hasRow THEN Threw(ws, "A Cell needs a Row")
        ELSE Done(SetValue(ws, a.row, a.col, params.value))

(***************************************************************************)
(* findAndReplace                                                          *)
(***************************************************************************)
\* (a variant that searches the whole sheet when the column is not found)
findAndReplaceGlobalFallback(ws, params) ==
    LET targetColIndex == IF Truthy(params.column)
                          THEN getColumnIndex(ws, params.column.s).colIndex
                          ELSE -1
        hit == {rc \in DOMAIN ws.cells :
                   /\ targetColIndex = -1 \/ rc[2] = targetColIndex
                   /\ LooseMatch(ws.cells[rc], params.findValue)}
        dom == IF IsNullish(params.replaceValue) THEN DOMAIN ws.cells \ hit
               ELSE DOMAIN ws.cells
    IN  IF hit = {} THEN Threw(ws, "No occurrences found")
        ELSE Done([ws EXCEPT !.cells = [rc \in dom |->
                        IF rc \in hit THEN params.replaceValue ELSE ws.cells[rc]]])

findAndReplace(ws, params) ==
    LET restricted == Truthy(params.column)
        targetColIndex == IF restricted THEN getColumnIndex(ws, params.column.s).colIndex
                          ELSE -1
        hit == {rc \in DOMAIN ws.cells :
                   /\ targetColIndex = -1 \/ rc[2] = targetColIndex
                   /\ LooseMatch(ws.cells[rc], params.findValue)}
        dom == IF IsNullish(params.replaceValue) THEN DOMAIN ws.cells \ hit
               ELSE DOMAIN ws.cells
    IN  IF restricted /\ targetColIndex = -1 THEN Threw(ws, "Column not found")
        ELSE IF hit = {} THEN Threw(ws, "No occurrences found")
        ELSE Done([ws EXCEPT !.cells = [rc \in dom |->
                        IF rc \in hit THEN params.replaceValue ELSE ws.cells[rc]]])

(***************************************************************************)
(* updateRowValues                                                         *)
(***************************************************************************)
sSET == << "S","E","T" >>

\* the inner updateCell: the value the cell holds afterwards
UpdatedValue(currentVal, operation, value) ==
    LET numCurrent == ParseFloat(currentVal)
        numValue == ParseFloat(value)
    IN  IF operation = sSET THEN value
        ELSE IF ~(numCurrent.ok /\ numValue.ok) THEN currentVal
        ELSE CASE operation = << "+" >> -> Num(numCurrent.n + numValue.n)
               [] operation = << "-" >> -> Num(numCurrent.n - numValue.n)
               [] operation = << "*" >> -> Num(numCurrent.n * numValue.n)
               [] operation = << "/" >> ->
                    \* the quotients of the model are whole (see the actions drawn)
                    IF numValue.n # 0 THEN Num(numCurrent.n \div numValue.n)
                    ELSE currentVal
               [] OTHER -> currentVal

RECURSIVE UpdateCells(_, _, _, _)
UpdateCells(ws, cellSeq, operation, value) ==
    IF cellSeq = <<>> THEN ws
    ELSE LET rc == Head(cellSeq) IN
         UpdateCells(SetValue(ws, rc[1], rc[2],
                              UpdatedValue(Get(ws, rc[1], rc[2]), operation, value)),
                     Tail(cellSeq), operation, value)

RECURSIVE SetToSeq(_)
SetToSeq(S) == IF S = {} THEN <<>>
               ELSE LET x == CHOOSE y \in S : TRUE IN << x >> \o SetToSeq(S \ {x})

updateRowValues(ws, params) ==
    LET hasFilter == Truthy(params.filterColumn)
        f == IF hasFilter THEN getColumnIndex(ws, params.filterColumn.s)
             ELSE [colIndex |-> -1, foundAtRow |-> -1]
        searchColIndex == f.colIndex
        headerRowIndex == f.foundAtRow
        hasTarget == Truthy(params.targetColumn)
        targetColIndex == IF hasTarget THEN getColumnIndex(ws, params.targetColumn.s).colIndex
                          ELSE -1
        matched == {r \in RowNumbers(ws) :
                       /\ r # headerRowIndex
                       /\ LooseMatch(Get(ws, r, searchColIndex), params.filterValue)}
        touched == IF targetColIndex # -1
                   THEN {<< r, targetColIndex >> : r \in matched}
                   ELSE {rc \in DOMAIN ws.cells : rc[1] \in matched /\ rc[2] # searchColIndex}
    IN  IF ~hasFilter THEN Threw(ws, "Filter Column is required")
        ELSE IF searchColIndex = -1 THEN Threw(ws, "Filter Column not found")
        ELSE IF hasTarget /\ targetColIndex = -1 THEN Threw(ws, "Target Column not found")
        ELSE IF ~hasTarget /\ params.operation.s = sSET
             THEN Threw(ws, "Target Column is required for SET operation")
        ELSE IF matched = {} THEN Threw(ws, "No rows updated")
        ELSE Done(UpdateCells(ws, SetToSeq(touched), params.operation.s, params.value))

(***************************************************************************)
(* Actions as the AI hands them over: { action, params, message }.         *)
(* params holds every parameter name of the seven handlers, Undef where    *)
(* the object has no such property; hasParams is FALSE for an object       *)
(* without a params object.                                                *)
(***************************************************************************)
NoParams == [columnName |-> Undef, formula |-> Undef, condition |-> Undef,
             color |-> Undef, column |-> Undef, order |-> Undef,
             filterColumn |-> Undef, filterValue |-> Undef, operation |-> Undef,
             value |-> Undef, targetColumn |-> Undef, keyColumn |-> Undef,
             keyValue |-> Undef, valueColumn |-> Undef, newValue |-> Undef,
             cell |-> Undef, findValue |-> Undef, replaceValue |-> Undef]
ParamNames == DOMAIN NoParams
Action(name, params) == [action |-> name, hasParams |-> TRUE, params |-> params,
                         message |-> Undef]

(***************************************************************************)
(* validateActionObject (aiService.js)                                     *)
(***************************************************************************)
isBlankString(value) == value.t = "str" /\ Trim(value.s) = <<>>
\* requireNonEmptyString does not throw
requireNonEmptyString(value) == value.t = "str" /\ ~isBlankString(value)
\* requireNonEmptyValue does not throw
requireNonEmptyValue(value) == ~IsNullish(value) /\ ~isBlankString(value)
\* validateNoEmptyStrings does not throw
validateNoEmptyStrings(params) == \A k \in ParamNames : ~isBlankString(params[k])
\* an optional parameter that must be a non-empty string when provided
OptionalString(value) == IsNullish(value) \/ requireNonEmptyString(value)

allowedOperations == {sSET, << "+" >>, << "-" >>, << "*" >>, << "/" >>}

\* /^[A-Za-z]+[0-9]+$/.test(cell.trim())
RECURSIVE LetterPrefixLen(_)
LetterPrefixLen(s) ==
    IF s # <<>> /\ IsLetter(Head(s)) THEN 1 + LetterPrefixLen(Tail(s)) ELSE 0
IsCellAddress(s) ==
    LET t == Trim(s)
        k == LetterPrefixLen(t)
    IN  k >= 1 /\ k < Len(t) /\ AllDigits(SubSeq(t, k + 1, Len(t)))

\* TRUE when validateActionObject returns, FALSE when it throws
ValidAction(a) ==
    /\ a.action # ""
    /\ a.hasParams
    /\ validateNoEmptyStrings(a.params)
    /\ LET p == a.params IN
       CASE a.action = "ADD_COLUMN" ->
                requireNonEmptyString(p.columnName) /\ requireNonEmptyString(p.formula)
         [] a.action = "HIGHLIGHT_ROWS" -> requireNonEmptyString(p.condition)
         [] a.action = "SORT_DATA" ->
                /\ requireNonEmptyString(p.column)
                /\ requireNonEmptyString(p.order)
                /\ ToLower(p.order.s) \in {sAsc, sDesc}
         [] a.action = "UPDATE_ROW_VALUES" ->
                /\ requireNonEmptyString(p.filterColumn)
                /\ requireNonEmptyValue(p.filterValue)
                /\ requireNonEmptyString(p.operation)
                /\ p.operation.s \in allowedOperations
                /\ requireNonEmptyValue(p.value)
                /\ requireNonEmptyString(p.targetColumn)
         [] a.action = "UPDATE_COLUMN_VALUES" ->
                /\ requireNonEmptyString(p.column)
                /\ requireNonEmptyString(p.operation)
                /\ p.operation.s \in allowedOperations
                /\ requireNonEmptyValue(p.value)
         [] a.action = "UPDATE_KEY_VALUE" ->
                /\ requireNonEmptyString(p.keyColumn)
                /\ requireNonEmptyValue(p.keyValue)
                /\ requireNonEmptyValue(p.newValue)
                /\ OptionalString(p.valueColumn)
         [] a.action = "SET_CELL" ->
                /\ requireNonEmptyString(p.cell)
                /\ IsCellAddress(p.cell.s)
                /\ requireNonEmptyValue(p.value)
         [] a.action = "FIND_AND_REPLACE" ->
                /\ requireNonEmptyValue(p.findValue)
                /\ requireNonEmptyValue(p.replaceValue)
                /\ OptionalString(p.column)
         [] a.action = "ERROR" -> requireNonEmptyString(a.message)
         [] OTHER -> FALSE

\* what validateActionObject returns: { action, params }, the order lower-cased
validateActionObject(a) ==
    [action |-> a.action,
     params |-> IF a.action = "SORT_DATA"
                THEN [a.params EXCEPT !.order = Str(ToLower(a.params.order.s))]
                ELSE a.params]

(***************************************************************************)
(* processExcelAction (excelService.js): the workbook stored under         *)
(* filePath is loaded, the action is applied to its first worksheet and    *)
(* the workbook is written under `${name}_${Date.now()}${ext}`.            *)
(* A path is the uploaded file's name and the time stamps appended to it.  *)
(***************************************************************************)
Path(name, stamps) == [name |-> name, stamps |-> stamps]

\* the switch on the action name
Dispatch(worksheet, actionData) ==
    CASE actionData.action = "ADD_COLUMN" -> addColumn(worksheet, actionData.params)
      [] actionData.action = "HIGHLIGHT_ROWS" -> highlightRows(worksheet, actionData.params)
      [] actionData.action = "SORT_DATA" -> sortData(worksheet, actionData.params)
      [] actionData.action \in {"ADD_VALUE_TO_ROW", "UPDATE_ROW_VALUES"} ->
            updateRowValues(worksheet, actionData.params)
      [] actionData.action = "UPDATE_KEY_VALUE" -> updateKeyValue(worksheet, actionData.params)
      [] actionData.action = "SET_CELL" -> setCell(worksheet, actionData.params)
      [] actionData.action = "FIND_AND_REPLACE" -> findAndReplace(worksheet, actionData.params)
      [] OTHER -> Threw(worksheet, "Unsupported action")

\* (a variant that writes the result back under the path it was read from)
NewFilePathInPlace(filePath, time) == filePath
\* the path the result is written under
NewFilePath(filePath, time) == Path(filePath.name, Append(filePath.stamps, time))

\* workbook.xlsx.writeFile(path): the whole workbook is stored under path
WriteFile(store, path, workbook) ==
    [p \in DOMAIN store \cup {path} |-> IF p = path THEN workbook ELSE store[p]]

\* (a variant that writes the workbook before the handler's Error surfaces)
processExcelActionSaveFirst(store, filePath, actionData, time) ==
    LET Save(workbook, r, newFilePath) ==
            [ok |-> r.ok,
             store |-> WriteFile(store, newFilePath, [workbook EXCEPT ![1] = r.ws]),
             filePath |-> IF r.ok THEN newFilePath ELSE filePath,
             message |-> r.err]
    IN  Save(store[filePath], Dispatch(store[filePath][1], actionData),
             NewFilePath(filePath, time))

\* the outcome of one call at clock reading time: the store afterwards and
\* either the new path or the message of the Error thrown
processExcelAction(store, filePath, actionData, time) ==
    LET Save(workbook, r, newFilePath) ==
            IF ~r.ok
            THEN [ok |-> FALSE, store |-> store, filePath |-> filePath, message |-> r.err]
            ELSE [ok |-> TRUE,
                  store |-> WriteFile(store, newFilePath, [workbook EXCEPT ![1] = r.ws]),
                  filePath |-> newFilePath, message |-> "none"]
    IN  IF Len(store[filePath]) = 0
        THEN [ok |-> FALSE, store |-> store, filePath |-> filePath,
              message |-> "Worksheet not found in the workbook."]
        ELSE Save(store[filePath], Dispatch(store[filePath][1], actionData),
                  NewFilePath(filePath, time))

(***************************************************************************)
(* The texts, workbooks and actions the model draws from                   *)
(***************************************************************************)
sName == << "N","a","m","e" >>
sRevenue == << "R","e","v","e","n","u","e" >>
sRaj == << "R","a","j" >>
sAmy == << "A","m","y" >>
sZ == << "Z" >>
sTax == << "T","a","x" >>
sMissing == << "M","i","s","s","i","n","g" >>
sOldVal == << "O","l","d","V","a","l" >>
sReport == << "R","e","p","o","r","t" >>
s300 == << "3","0","0" >>
s100 == << "1","0","0" >>

\* Name, Revenue / Raj, 100 / Amy, 300 / Z
BookA == << Sheet("Sheet1",
              (<< 1, 1 >> :> Str(sName)) @@ (<< 1, 2 >> :> Str(sRevenue)) @@
              (<< 2, 1 >> :> Str(sRaj)) @@ (<< 2, 2 >> :> Num(100)) @@
              (<< 3, 1 >> :> Str(sAmy)) @@ (<< 3, 2 >> :> Num(300)) @@
              (<< 4, 1 >> :> Str(sZ))) >>
\* a key-value sheet: Name, OldVal / Revenue, "100"
BookKV == << Sheet("Config",
               (<< 1, 1 >> :> Str(sName)) @@ (<< 1, 2 >> :> Str(sOldVal)) @@
               (<< 2, 1 >> :> Str(sRevenue)) @@ (<< 2, 2 >> :> Str(s100))) >>
\* two sheets; the first has a title row above its header row
BookTwo == << Sheet("Data",
                (<< 1, 1 >> :> Str(sReport)) @@
                (<< 2, 1 >> :> Str(sName)) @@ (<< 2, 2 >> :> Str(sRevenue)) @@
                (<< 3, 1 >> :> Str(sAmy)) @@ (<< 3, 2 >> :> Str(s300)) @@
                (<< 5, 1 >> :> Str(sRaj)) @@ (<< 5, 2 >> :> Num(100))),
              Sheet("Notes",
                (<< 1, 1 >> :> Str(sRevenue)) @@ (<< 2, 1 >> :> Num(100))) >>
BatchBooks == {BookA, BookKV, BookTwo}

AddTax == Action("ADD_COLUMN",
            [NoParams EXCEPT !.columnName = Str(sTax),
                             !.formula = Str(sRevenue \o << "*", "2" >>)])
HighlightBig == Action("HIGHLIGHT_ROWS",
            [NoParams EXCEPT !.condition = Str(sRevenue \o << " ", ">", " ", "1", "5", "0" >>)])
SortDesc == Action("SORT_DATA",
            [NoParams EXCEPT !.column = Str(sRevenue), !.order = Str(<< "D","E","S","C" >>)])
SortMissing == Action("SORT_DATA",
            [NoParams EXCEPT !.column = Str(sMissing), !.order = Str(sAsc)])
RaiseAmy == Action("UPDATE_ROW_VALUES",
            [NoParams EXCEPT !.filterColumn = Str(sName),
                             !.filterValue = Str(<< "a","m","y" >>),
                             !.operation = Str(<< "+" >>), !.value = Num(10),
                             !.targetColumn = Str(sRevenue)])
SetNoTarget == Action("UPDATE_ROW_VALUES",
            [NoParams EXCEPT !.filterColumn = Str(sName), !.filterValue = Str(sAmy),
                             !.operation = Str(sSET), !.value = Num(10)])
UpdateColumn == Action("UPDATE_COLUMN_VALUES",
            [NoParams EXCEPT !.column = Str(sRevenue), !.operation = Str(<< "*" >>),
                             !.value = Num(2)])
RenameKey == Action("UPDATE_KEY_VALUE",
            [NoParams EXCEPT !.keyColumn = Str(sName), !.keyValue = Str(sName),
                             !.newValue = Str(sRaj)])
SetB2 == Action("SET_CELL",
            [NoParams EXCEPT !.cell = Str(<< "B", "2" >>), !.value = Num(7)])
SetTooFar == Action("SET_CELL",
            [NoParams EXCEPT !.cell = Str(<< "X", "F", "E", "1" >>), !.value = Num(7)])
SetBadCell == Action("SET_CELL",
            [NoParams EXCEPT !.cell = Str(<< "2", "B" >>), !.value = Num(7)])
Replace100 == Action("FIND_AND_REPLACE",
            [NoParams EXCEPT !.findValue = Str(s100), !.replaceValue = Num(5)])
ReplaceInMissing == Action("FIND_AND_REPLACE",
            [NoParams EXCEPT !.findValue = Str(s100), !.replaceValue = Num(5),
                             !.column = Str(sMissing)])
ReplaceNone == Action("FIND_AND_REPLACE",
            [NoParams EXCEPT !.findValue = Str(sMissing), !.replaceValue = Num(5)])

\* the actions an AI answer of one action may hold
Candidates == {AddTax, HighlightBig, SortDesc, SortMissing, RaiseAmy, SetNoTarget,
               UpdateColumn, RenameKey, SetB2, SetTooFar, SetBadCell, Replace100,
               ReplaceInMissing, ReplaceNone}
\* the actions an AI answer of several actions is made of
BatchCandidates == {AddTax, SortDesc, SortMissing, RaiseAmy, SetNoTarget,
                    UpdateColumn, SetB2, Replace100}

\* the lists of actions an AI answer may hold: any list of up to MaxBatch of the
\* batch candidates, any single candidate, and the batch of the spec's Scenario E
RECURSIVE ListsUpTo(_)
ListsUpTo(n) ==
    IF n = 0 THEN {<<>>}
    ELSE LET shorter == ListsUpTo(n - 1)
         IN  shorter \cup {Append(l, a) : l \in {x \in shorter : Len(x) = n - 1},
                                          a \in BatchCandidates}
ScenarioE == << AddTax, SortMissing, SetB2 >>
ActionLists == ListsUpTo(MaxBatch) \cup {<< a >> : a \in Candidates} \cup {ScenarioE}

(***************************************************************************)
(* State                                                                   *)
(***************************************************************************)
VARIABLES
    files,              \* the storage: path -> workbook
    now,                \* the last reading of Date.now()
    pc,                 \* where executeAICommand stands
    validatedActions,   \* executeAICommand's locals ...
    i,
    currentFilePath,
    anySucceeded,
    results,
    ret,                \* ... and what it returned
    wpc,                \* where each single-cell write request stands
    wreq,               \* its parameters
    wbook,              \* the workbook it loaded
    wres,               \* its response
    resp,               \* the response to the last window request
    call,               \* a handler call: the worksheet and the arguments
    outcome,            \* what the call handed back
    client              \* the state of the client's Spreadsheet component

batchVars == << pc, validatedActions, i, currentFilePath, anySucceeded, results, ret >>
gridVars == << wpc, wreq, wbook, wres, resp >>
callVars == << call, outcome >>
vars == << files, now, batchVars, gridVars, callVars, client >>

Writers == {1, 2}

UploadPath == Path("book", <<>>)
NoPath == Path("", <<>>)
NoReturn == [success |-> FALSE, results |-> <<>>, filePath |-> NoPath]
NoCellRequest == [sheetId |-> "", row |-> 0, col |-> 0, value |-> Undef]
NoWindowRequest == [sheetId |-> "", rowStart |-> 0, rowEnd |-> 0, colStart |-> 0,
                    colEnd |-> 0]
NoWindow == [rowStart |-> 0, rowEnd |-> 0, colStart |-> 0, colEnd |-> 0]
NoResponse == [status |-> 0, message |-> "none", request |-> NoWindowRequest,
               sheetId |-> "", available |-> <<>>, data |-> <<>>,
               meta |-> [totalRows |-> 0, totalColumns |-> 0, sheetName |-> "",
                         window |-> NoWindow]]
NoWriteResponse == [status |-> 0, message |-> "none", sheetId |-> "", available |-> <<>>]

InitBatchVars ==
    /\ pc = "idle"
    /\ validatedActions = <<>>
    /\ i = 0
    /\ currentFilePath = NoPath
    /\ anySucceeded = FALSE
    /\ results = <<>>
    /\ ret = NoReturn
NoCall == [op |-> "none"]
NoClient == [mounted |-> FALSE]
InitClient == client = NoClient
InitCallVars ==
    /\ call = NoCall
    /\ outcome = NoCall
InitGridVars ==
    /\ wpc = [w \in Writers |-> "idle"]
    /\ wreq = [w \in Writers |-> NoCellRequest]
    /\ wbook = [w \in Writers |-> <<>>]
    /\ wres = [w \in Writers |-> NoWriteResponse]
    /\ resp = NoResponse

Init ==
    /\ \E wb \in BatchBooks : files = [p \in {UploadPath} |-> wb]
    /\ now = 1
    /\ InitBatchVars
    /\ InitClient
    /\ InitGridVars
    /\ InitCallVars

(***************************************************************************)
(* executeAICommand (aiService.js)                                         *)
(***************************************************************************)
\* the arguments of the call: the sheet the caller named, if any, and the
\* actions of the AI's answer
CommandCall(actions) ==
    [op |-> "executeAICommand",
     sheetId |-> IF call.op = "executeAICommand" THEN call.sheetId ELSE "",
     actions |-> actions]

\* (a variant that starts the loop once the first action is valid and leaves
\* the validation of the others to their turn)
CommandFromFirstValid(lists) ==
    /\ pc = "idle"
    /\ \E actions \in lists :
          /\ call' = CommandCall(actions)
          /\ IF actions = <<>> \/ ~ValidAction(actions[1])
             THEN /\ pc' = "threw"
                  /\ UNCHANGED << validatedActions, currentFilePath >>
             ELSE /\ pc' = "loop"
                  /\ validatedActions' =
                        [k \in 1..Len(actions) |-> validateActionObject(actions[k])]
                  /\ currentFilePath' = UploadPath
    /\ i' = 0
    /\ anySucceeded' = FALSE
    /\ results' = <<>>
    /\ UNCHANGED << files, now, ret, gridVars, client, outcome >>

\* lines 201-229: the AI's answer is taken apart and validated
CommandFrom(lists) ==
    /\ pc = "idle"
    /\ \E actions \in lists :
          /\ call' = CommandCall(actions)
          /\ IF actions = <<>> \/ \E k \in 1..Len(actions) : ~ValidAction(actions[k])
             THEN /\ pc' = "threw"
                  /\ UNCHANGED << validatedActions, currentFilePath >>
             ELSE /\ pc' = "loop"
                  /\ validatedActions' =
                        [k \in 1..Len(actions) |-> validateActionObject(actions[k])]
                  /\ currentFilePath' = UploadPath
    /\ i' = 0
    /\ anySucceeded' = FALSE
    /\ results' = <<>>
    /\ UNCHANGED << files, now, ret, gridVars, client, outcome >>
Command == CommandFrom(ActionLists)

\* (a variant that hands every step the uploaded file)
StepFilePathUpload == UploadPath
\* line 234: the path a step is handed
StepFilePath == currentFilePath

\* (a variant without the break of line 240: the loop goes on after a failure)
StepNoBreak ==
    /\ pc = "loop"
    /\ i < Len(validatedActions)
    /\ \E time \in now..MaxNow :
          \E step \in {validatedActions[i + 1]} :
          \E out \in {processExcelAction(files, StepFilePath, step, time)} :
              /\ now' = time
              /\ files' = out.store
              /\ i' = i + 1
              /\ pc' = IF i + 1 < Len(validatedActions) THEN "loop" ELSE "return"
              /\ IF out.ok
                 THEN /\ currentFilePath' = out.filePath
                      /\ anySucceeded' = TRUE
                      /\ results' = Append(results,
                            [index |-> i, action |-> step.action, success |-> TRUE,
                             filePath |-> out.filePath, message |-> "none"])
                 ELSE /\ results' = Append(results,
                            [index |-> i, action |-> step.action, success |-> FALSE,
                             filePath |-> NoPath, message |-> out.message])
                      /\ UNCHANGED << currentFilePath, anySucceeded >>
    /\ UNCHANGED << validatedActions, ret, gridVars, client, callVars >>

\* lines 231-242: one turn of the loop, the clock read at some later instant
Step ==
    /\ pc = "loop"
    /\ i < Len(validatedActions)
    /\ \E time \in now..MaxNow :
          \E step \in {validatedActions[i + 1]} :
          \E out \in {processExcelAction(files, StepFilePath, step, time)} :
              /\ now' = time
              /\ files' = out.store
              /\ IF out.ok
                 THEN /\ currentFilePath' = out.filePath
                      /\ anySucceeded' = TRUE
                      /\ results' = Append(results,
                            [index |-> i, action |-> step.action, success |-> TRUE,
                             filePath |-> out.filePath, message |-> "none"])
                      /\ i' = i + 1
                      /\ pc' = IF i + 1 < Len(validatedActions) THEN "loop" ELSE "return"
                 ELSE /\ results' = Append(results,
                            [index |-> i, action |-> step.action, success |-> FALSE,
                             filePath |-> NoPath, message |-> out.message])
                      /\ pc' = "return"
                      /\ UNCHANGED << currentFilePath, anySucceeded, i >>
    /\ UNCHANGED << validatedActions, ret, gridVars, client, callVars >>

\* (a variant that reports success as soon as one step succeeded)
overallSuccessAny(rs) == \E k \in 1..Len(rs) : rs[k].success
\* line 247: results.every(r => r.success)
overallSuccess(rs) == \A k \in 1..Len(rs) : rs[k].success

\* lines 244-252
Return ==
    /\ pc = "return"
    /\ ret' = [success |-> overallSuccess(results),
               results |-> results,
               filePath |-> IF anySucceeded THEN currentFilePath ELSE NoPath]
    /\ pc' = "done"
    /\ UNCHANGED << files, now, validatedActions, i, currentFilePath, anySucceeded,
                    results, gridVars, client, callVars >>

Next == Command \/ Step \/ Return

Spec == Init /\ [][Next]_vars

(***************************************************************************)
(* Batch semantics                                                         *)
(***************************************************************************)
\* the path step k of the running batch was handed, and the workbook a
\* successful step k must have written
InputOf(k) == IF k = 1 THEN UploadPath ELSE results[k - 1].filePath
OutcomeOf(k) ==
    [files[InputOf(k)] EXCEPT ![1] = Dispatch(files[InputOf(k)][1], validatedActions[k]).ws]
Failed(rs) == rs # <<>> /\ ~rs[Len(rs)].success
\* a step has just resolved
Resolved == Len(results') = Len(results) + 1
Succeeded == Resolved /\ results'[Len(results')].success
FailedNow == Resolved /\ ~results'[Len(results')].success

\* C1: once step i of a batch has failed, the batch is over (no later step
\* runs), the snapshots of steps 1..i-1 are in the store, each holding the
\* result of its action on the snapshot before it, and the store holds
\* nothing else: nothing of step i was written.
C1_FailedStepEndsBatch ==
    Failed(results) =>
        LET n == Len(results) IN
        /\ pc \in {"return", "done"}
        /\ i = n - 1
        /\ \A k \in 1..(n - 1) :
              /\ results[k].success
              /\ results[k].filePath \in DOMAIN files
              /\ files[results[k].filePath] = OutcomeOf(k)
        /\ DOMAIN files = {UploadPath} \cup {results[k].filePath : k \in 1..(n - 1)}
        /\ Cardinality(DOMAIN files) = n
        /\ files[UploadPath] \in BatchBooks

\* Scenario E has run: AddColumn's column is in the snapshot it wrote, SortData
\* failed, and no stored workbook holds SetCell's value.
C1_Witness ==
    /\ pc = "done"
    /\ Len(validatedActions) = 3
    /\ Len(results) = 2
    /\ results[1].action = "ADD_COLUMN" /\ results[1].success
    /\ results[2].action = "SORT_DATA" /\ ~results[2].success
    /\ \E c \in 1..3 : Get(files[results[1].filePath][1], 1, c) = Str(sTax)
    /\ \A p \in DOMAIN files : Get(files[p][1], 2, 2) # Num(7)

\* C2: the returned success flag is true exactly when every action of the list
\* ran and succeeded; the results are one entry per executed step, in order,
\* with the step's action name, and only the last entry can be a failure, which
\* carries a message.
C2_BatchResult ==
    pc = "done" =>
        /\ ret.success <=> /\ Len(ret.results) = Len(validatedActions)
                           /\ \A k \in 1..Len(ret.results) : ret.results[k].success
        /\ Len(ret.results) \in 1..Len(validatedActions)
        /\ \A k \in 1..Len(ret.results) :
              /\ ret.results[k].index = k - 1
              /\ ret.results[k].action = validatedActions[k].action
              /\ ~ret.results[k].success =>
                    k = Len(ret.results) /\ ret.results[k].message # "none"
              /\ ret.results[k].success => ret.results[k].filePath \in DOMAIN files

\* a batch whose first step succeeded and whose second failed has returned
C2_Witness ==
    /\ pc = "done"
    /\ ~ret.success
    /\ Len(ret.results) = 2
    /\ ret.results[1].success
    /\ ret.results[2].message = "Unsupported action"

\* C3: a step starts only when every step before it has resolved, and it is
\* handed the snapshot the step before it wrote (the uploaded file for the
\* first): what it writes is its action applied to that snapshot.
C3_StepsInOrderOnPreviousSnapshot ==
    [][Resolved =>
          /\ Len(results) = i
          /\ results'[i + 1].index = i
          /\ \A k \in 1..i : results[k].success
          /\ currentFilePath = (IF i = 0 THEN UploadPath ELSE results[i].filePath)
          /\ Succeeded =>
                files'[results'[i + 1].filePath] =
                    [files[currentFilePath] EXCEPT
                        ![1] = Dispatch(files[currentFilePath][1], validatedActions[i + 1]).ws]
      ]_vars

\* two steps have succeeded, and the second snapshot is not what the second
\* action makes of the uploaded workbook
C3_Witness ==
    /\ Len(results) = 2
    /\ results[1].success /\ results[2].success
    /\ files[results[2].filePath] #
          [files[UploadPath] EXCEPT
              ![1] = Dispatch(files[UploadPath][1], validatedActions[2]).ws]

\* C4: a successful action writes the changed workbook under a path that is
\* not the path it read, returns that path, and leaves what is stored under
\* the path it read as it was.
C4_InputSnapshotUntouched ==
    [][Succeeded =>
          LET new == results'[Len(results')].filePath IN
          /\ new # currentFilePath
          /\ new = currentFilePath'
          /\ new \in DOMAIN files'
          /\ files'[new][1] = Dispatch(files[currentFilePath][1], validatedActions[i + 1]).ws
          /\ \A p \in DOMAIN files : p # new => files'[p] = files[p]
          /\ currentFilePath \in DOMAIN files'
          /\ files'[currentFilePath] = files[currentFilePath]
      ]_vars

\* a single action has succeeded and its snapshot differs from the upload
C4_Witness ==
    /\ pc = "done"
    /\ ret.success
    /\ Len(results) = 1
    /\ ret.filePath # UploadPath
    /\ files[ret.filePath] # files[UploadPath]

\* C5: an action that fails, in a handler or in validation, leaves the store
\* as it was: no cell of a stored workbook changes and no snapshot is added.
C5_FailedActionWritesNothing ==
    [][(FailedNow \/ pc' = "threw") => files' = files]_vars

\* a single action has failed because no row matched
C5_Witness ==
    /\ pc = "done"
    /\ Len(validatedActions) = 1
    /\ results[1].message = "No rows updated"
    /\ DOMAIN files = {UploadPath}

(***************************************************************************)
(* Windowed read and single-cell write (excelService.js, excelController.js)*)
(***************************************************************************)
MAX_VIRTUAL_ROWS == 1000
MAX_VIRTUAL_COLS == 100

\* lines 672-689: what a cell value is turned into for the response
CellJson(v) ==
    CASE IsNullish(v) -> Null
      [] v.t = "date" -> Str(ToISOString(v.n))
      [] IsObject(v) ->
            IF v.t = "link" /\ v.s # <<>> THEN Str(v.s)
            ELSE IF v.t = "formula" /\ v.rt = "num" THEN Num(v.rn)
            ELSE IF v.t = "formula" /\ v.rt = "str" THEN Str(v.rs)
            ELSE Str(JsonStringify(v))
      [] OTHER -> v

\* (a variant that visits only the cells the row holds, as row.eachCell does)
WindowRowEachCell(ws, r, c1, c2) ==
    LET InWindow(c) == c1 <= c /\ c <= c2
        cols == SelectSeq(EachCell(ws, r), InWindow)
    IN  [k \in 1..Len(cols) |-> CellJson(Get(ws, r, cols[k]))]
\* lines 667-693: one row of the window, by column number
WindowRow(ws, r, c1, c2) ==
    [k \in 1..(c2 - c1 + 1) |-> CellJson(Get(ws, r, c1 + k - 1))]

(* a variant of getWorksheet that falls back to the first sheet *)
getWorksheetOrFirst(wb, name) == IF SheetIndex(wb, name) = 0 THEN 1 ELSE SheetIndex(wb, name)
\* workbook.getWorksheet(sheetId), lines 555 and 634
getWorksheet(wb, name) == SheetIndex(wb, name)

NoMeta == [totalRows |-> 0, totalColumns |-> 0, sheetName |-> "", window |-> NoWindow]
sheetNotFound == "Sheet not found in workbook. Available sheets:"

\* lines 628-714
getWindowedSheetData(store, filePath, sheetId, rowStart, rowEnd, colStart, colEnd) ==
    LET workbook == store[filePath]
        k == getWorksheet(workbook, sheetId)
    IN  IF k = 0
        THEN [ok |-> FALSE, error |-> sheetNotFound, sheetId |-> sheetId,
              available |-> SheetNames(workbook), data |-> <<>>, meta |-> NoMeta]
        ELSE LET worksheet == workbook[k]
                 clampedRowStart == Max({1, Min({rowStart, MAX_VIRTUAL_ROWS})})
                 clampedRowEnd == Max({1, Min({rowEnd, MAX_VIRTUAL_ROWS})})
                 clampedColStart == 1
                 clampedColEnd == MAX_VIRTUAL_COLS
             IN  [ok |-> TRUE, error |-> "none", sheetId |-> sheetId, available |-> <<>>,
                  data |-> [n \in 1..(clampedRowEnd - clampedRowStart + 1) |->
                              WindowRow(worksheet, clampedRowStart + n - 1,
                                        clampedColStart, clampedColEnd)],
                  meta |-> [totalRows |-> MAX_VIRTUAL_ROWS,
                            totalColumns |-> MAX_VIRTUAL_COLS,
                            sheetName |-> worksheet.name,
                            window |-> [rowStart |-> clampedRowStart,
                                        rowEnd |-> clampedRowEnd,
                                        colStart |-> clampedColStart,
                                        colEnd |-> clampedColEnd]]]

\* lines 550-565: the workbook in memory once the cell is set, or the Error
updateCell(store, filePath, sheetId, row, col, value) ==
    LET workbook == store[filePath]
        k == getWorksheet(workbook, sheetId)
    IN  IF k = 0
        THEN [ok |-> FALSE, error |-> sheetNotFound, available |-> SheetNames(workbook),
              workbook |-> workbook]
        ELSE [ok |-> TRUE, error |-> "none", available |-> <<>>,
              workbook |-> [workbook EXCEPT ![k] = SetValue(workbook[k], row, col, value)]]

\* excelController.js lines 272-295: the controller's answer before it calls
\* updateCell, "ok" when it goes on to call it
updateCellChecks(req) ==
    IF req.sheetId = "" \/ req.row = 0 \/ req.col = 0 \/ req.value.t = "undef"
    THEN "Missing required parameters: sheetId (sheet name), row, col, value"
    ELSE IF req.row < 1 \/ req.col < 1
    THEN "Row and column must be >= 1 (Excel uses 1-based indexing)"
    ELSE "ok"

\* (a variant that checks only that the sheet is named)
getSheetWindowChecksSheetOnly(req) ==
    IF req.sheetId = ""
    THEN "Missing required query parameter: sheetId (sheet name)"
    ELSE "ok"
\* excelController.js lines 409-446: the controller's answer before it reads
getSheetWindowChecks(req) ==
    IF req.sheetId = ""
    THEN "Missing required query parameter: sheetId (sheet name)"
    ELSE IF req.rowStart > req.rowEnd \/ req.colStart > req.colEnd
    THEN "Invalid range: start must be <= end"
    ELSE IF req.rowStart < 1 \/ req.colStart < 1
    THEN "Invalid range: start values must be >= 1 (Excel uses 1-based indexing)"
    ELSE "ok"

sX == << "x" >>
sY == << "y" >>
sA1Plus1 == << "A","1","+","1" >>
sB1 == << "B","1" >>
sUrl == << "h","t","t","p",":","/","/","a" >>
\* Scenario C: one populated row, x y
BookC == << Sheet("Sheet1", (<< 1, 1 >> :> Str(sX)) @@ (<< 1, 2 >> :> Str(sY))) >>
\* a sparse sheet holding every kind of value, and an empty second sheet
BookMixed == << Sheet("Data",
                  (<< 1, 1 >> :> Str(sName)) @@ (<< 1, 3 >> :> DateV(5)) @@
                  (<< 2, 2 >> :> FormulaNum(sA1Plus1, 3)) @@
                  (<< 2, 4 >> :> FormulaStr(sB1, sY)) @@
                  (<< 4, 1 >> :> Formula(sB1)) @@
                  (<< 4, 2 >> :> Rich(<< << "a", "b" >>, << "c" >> >>)) @@
                  (<< 4, 3 >> :> Link(sX, sUrl)) @@
                  (<< 4, 5 >> :> Num(7))),
                Sheet("Notes", [rc \in {} |-> Null]) >>
GridBooks == {BookC, BookMixed}

CellRequest(sh, r, c, v) == [sheetId |-> sh, row |-> r, col |-> c, value |-> v]
CellRequests ==
    {CellRequest(sh, 1, 1, Str(sZ)) : sh \in {"Sheet1", "Data"}}
    \cup {CellRequest(sh, 2, 3, Num(9)) : sh \in {"Sheet1", "Data"}}
    \cup {CellRequest("Data", 0, 1, Str(sZ)), CellRequest("Sheet1", 1, -1, Num(9))}

WindowRequest(sh, r1, r2, c1, c2) ==
    [sheetId |-> sh, rowStart |-> r1, rowEnd |-> r2, colStart |-> c1, colEnd |-> c2]
WindowRequests ==
    {WindowRequest("Sheet1", 1, 2, 1, 2), WindowRequest("Data", 1, 2, 1, 2),
     WindowRequest("Data", 4, 4, 2, 5), WindowRequest("Sheet1", 2, 3, 3, 3),
     WindowRequest("Data", 999, 1001, 1, 100), WindowRequest("Data", 1001, 1002, 99, 101),
     WindowRequest("Notes", 1, 2, 1, 2),
     WindowRequest("Sheet1", 2, 1, 1, 2), WindowRequest("Data", 1, 2, 3, 2),
     WindowRequest("Data", 0, 1, 1, 2), WindowRequest("Data", 1, 2, 0, 1),
     WindowRequest("", 1, 1, 1, 1)}

InitGrid ==
    /\ \E wb \in GridBooks : files = [p \in {UploadPath} |-> wb]
    /\ now = 1
    /\ InitBatchVars
    /\ InitClient
    /\ InitGridVars
    /\ InitCallVars

\* updateCellController up to the point where updateCell's readFile has
\* resolved and the cell is set in memory (excelController.js 266-303,
\* excelService.js 550-564)
UpdateCellLoad(w) ==
    /\ wpc[w] = "idle"
    /\ \E req \in CellRequests :
          /\ wreq' = [wreq EXCEPT ![w] = req]
          /\ IF updateCellChecks(req) # "ok"
             THEN /\ wres' = [wres EXCEPT ![w] =
                                [NoWriteResponse EXCEPT !.status = 400,
                                                        !.message = updateCellChecks(req)]]
                  /\ wpc' = [wpc EXCEPT ![w] = "done"]
                  /\ UNCHANGED wbook
             ELSE LET r == updateCell(files, UploadPath, req.sheetId, req.row, req.col,
                                      req.value)
                  IN  IF r.ok
                      THEN /\ wbook' = [wbook EXCEPT ![w] = r.workbook]
                           /\ wpc' = [wpc EXCEPT ![w] = "writing"]
                           /\ UNCHANGED wres
                      ELSE /\ wres' = [wres EXCEPT ![w] =
                                         [status |-> 500, message |-> r.error,
                                          sheetId |-> req.sheetId,
                                          available |-> r.available]]
                           /\ wpc' = [wpc EXCEPT ![w] = "done"]
                           /\ UNCHANGED wbook
    /\ UNCHANGED << files, now, batchVars, callVars, client, resp >>

\* (a variant that sets the cell in the workbook as stored at the time of the
\* write instead of serialising the copy in memory)
WrittenWorkbookFresh(w) ==
    LET k == getWorksheet(files[UploadPath], wreq[w].sheetId)
    IN  [files[UploadPath] EXCEPT
            ![k] = SetValue(files[UploadPath][k], wreq[w].row, wreq[w].col, wreq[w].value)]
\* excelService.js line 567: the workbook writeFile serialises
WrittenWorkbook(w) == wbook[w]

\* writeFile has resolved and the controller answers (excelService.js 567,
\* excelController.js 305-308)
UpdateCellSave(w) ==
    /\ wpc[w] = "writing"
    /\ files' = WriteFile(files, UploadPath, WrittenWorkbook(w))
    /\ wpc' = [wpc EXCEPT ![w] = "done"]
    /\ wres' = [wres EXCEPT ![w] =
                  [NoWriteResponse EXCEPT !.status = 200,
                                          !.message = "Cell updated successfully"]]
    /\ UNCHANGED << now, batchVars, callVars, client, wreq, wbook, resp >>

\* getSheetWindow (excelController.js 400-484)
GetSheetWindowOf(filePath, requests) ==
    /\ \E req \in requests :
          IF getSheetWindowChecks(req) # "ok"
          THEN resp' = [NoResponse EXCEPT !.status = 400, !.request = req,
                                          !.message = getSheetWindowChecks(req)]
          ELSE LET result == getWindowedSheetData(files, filePath, req.sheetId,
                                 req.rowStart, req.rowEnd, req.colStart, req.colEnd)
               IN  IF result.ok
                   THEN resp' = [NoResponse EXCEPT !.status = 200, !.request = req,
                                                   !.data = result.data,
                                                   !.meta = result.meta]
                   ELSE resp' = [NoResponse EXCEPT !.status = 500, !.request = req,
                                                   !.message = result.error,
                                                   !.sheetId = result.sheetId,
                                                   !.available = result.available]
    /\ UNCHANGED << files, now, batchVars, callVars, client, wpc, wreq, wbook, wres >>
GetSheetWindow == GetSheetWindowOf(UploadPath, WindowRequests)

NextGrid ==
    \/ \E w \in Writers : UpdateCellLoad(w)
    \/ \E w \in Writers : UpdateCellSave(w)
    \/ GetSheetWindow
SpecGrid == InitGrid /\ [][NextGrid]_vars

(***************************************************************************)
(* Grid semantics                                                          *)
(***************************************************************************)
Stored == files[UploadPath]
Wrote(w) == wpc[w] = "done" /\ wres[w].status = 200
\* the value the stored workbook holds where writer w wrote
StoredAt(w) ==
    Get(Stored[getWorksheet(Stored, wreq[w].sheetId)], wreq[w].row, wreq[w].col)
DifferentCells(v, w) ==
    /\ wreq[v].sheetId = wreq[w].sheetId
    /\ << wreq[v].row, wreq[v].col >> # << wreq[w].row, wreq[w].col >>

\* C6: when two write requests to different cells of the same sheet have both
\* been answered with success, the stored workbook is the copy one of them
\* held in memory, written whole: it holds that writer's value, and whatever
\* the other wrote after that copy was loaded is gone (last write wins).
C6_LastWriteWins ==
    \A v, w \in Writers :
        (v # w /\ Wrote(v) /\ Wrote(w) /\ DifferentCells(v, w)) =>
            \E last \in {v, w} :
                /\ Stored = wbook[last]
                /\ StoredAt(last) = wreq[last].value

\* both writers were answered with success and the value of one of them is
\* not in the stored workbook
C6_Witness ==
    \E v, w \in Writers :
        /\ v # w /\ Wrote(v) /\ Wrote(w) /\ DifferentCells(v, w)
        /\ StoredAt(v) # wreq[v].value
        /\ StoredAt(w) = wreq[w].value

\* C7: the data of a successful window response has one row for every row
\* of the window reported in meta.window and, in every row, one value for
\* every column of that window.
C7_WindowIsDense ==
    resp.status = 200 =>
        LET win == resp.meta.window IN
        /\ Len(resp.data) >= 1
        /\ DOMAIN resp.data = 1..(win.rowEnd - win.rowStart + 1)
        /\ \A r \in DOMAIN resp.data :
              /\ DOMAIN resp.data[r] = 1..(win.colEnd - win.colStart + 1)
              /\ \A c \in DOMAIN resp.data[r] : resp.data[r][c].t \in {"null", "num", "str"}

\* row 4 of the sparse sheet was read: its empty fourth cell is a null
\* between two values, and the cells beyond its last one are nulls
C7_Witness ==
    /\ resp.status = 200
    /\ resp.request = WindowRequest("Data", 4, 4, 2, 5)
    /\ resp.meta.sheetName = "Data"
    /\ resp.data[1][4] = Null
    /\ resp.data[1][5] = Num(7)
    /\ resp.data[1][MAX_VIRTUAL_COLS] = Null

InVirtualBounds(req) ==
    /\ 1 <= req.rowStart /\ req.rowStart <= req.rowEnd /\ req.rowEnd <= MAX_VIRTUAL_ROWS
    /\ 1 <= req.colStart /\ req.colStart <= req.colEnd /\ req.colEnd <= MAX_VIRTUAL_COLS

\* C8: a successful response to a request inside the virtual bounds reports
\* the requested window and holds exactly the requested rows and columns;
\* rows 1..2, columns 1..2 of Scenario C's sheet give x y / null null.
C8_InBoundsWindowUnaltered ==
    (resp.status = 200 /\ InVirtualBounds(resp.request)) =>
        LET req == resp.request IN
        /\ resp.meta.window = [rowStart |-> req.rowStart, rowEnd |-> req.rowEnd,
                               colStart |-> req.colStart, colEnd |-> req.colEnd]
        /\ Len(resp.data) = req.rowEnd - req.rowStart + 1
        /\ \A r \in DOMAIN resp.data : Len(resp.data[r]) = req.colEnd - req.colStart + 1
        /\ (req = WindowRequest("Sheet1", 1, 2, 1, 2) /\ Stored = BookC) =>
              resp.data = << << Str(sX), Str(sY) >>, << Null, Null >> >>

\* the coercion C9 states
StatedCoercion(v) ==
    CASE IsNullish(v) -> Null
      [] v.t = "date" -> Str(ToISOString(v.n))
      [] v.t = "formula" ->
            IF v.rt = "num" THEN Num(v.rn)
            ELSE IF v.rt = "str" THEN Str(v.rs)
            ELSE Str(v.s)
      [] v.t = "rich" -> Str(Concat(v.runs))
      [] OTHER -> v

\* C9: every value of a successful window response is the stated coercion of
\* the value stored at its position.
C9_ValuesAreStatedCoercions ==
    [][(resp' # resp /\ resp'.status = 200) =>
          LET win == resp'.meta.window
              ws == Stored[getWorksheet(Stored, resp'.meta.sheetName)]
          IN  \A r \in DOMAIN resp'.data : \A c \in DOMAIN resp'.data[r] :
                 resp'.data[r][c] =
                    StatedCoercion(Get(ws, win.rowStart + r - 1, win.colStart + c - 1))
      ]_vars

Missing(sheetId) == \A k \in 1..Len(Stored) : Stored[k].name # sheetId

\* C10: a window request or a cell write that passes the controller's checks
\* and names a sheet the stored workbook does not have is answered with the
\* sheet-not-found error, which carries the names of the sheets the workbook
\* has, and the storage is left as it was.
C10_MissingSheetFails ==
    [][/\ (resp' # resp /\ getSheetWindowChecks(resp'.request) = "ok"
              /\ Missing(resp'.request.sheetId)) =>
            /\ resp'.status = 500
            /\ resp'.message = sheetNotFound
            /\ resp'.sheetId = resp'.request.sheetId
            /\ resp'.available = SheetNames(Stored)
            /\ resp'.data = <<>>
            /\ files' = files
       /\ \A w \in Writers :
            (wpc[w] = "idle" /\ wpc'[w] # "idle" /\ updateCellChecks(wreq'[w]) = "ok"
                 /\ Missing(wreq'[w].sheetId)) =>
               /\ wpc'[w] = "done"
               /\ wres'[w].status = 500
               /\ wres'[w].message = sheetNotFound
               /\ wres'[w].sheetId = wreq'[w].sheetId
               /\ wres'[w].available = SheetNames(Stored)
               /\ files' = files
      ]_vars

\* a write and a window read that named Sheet1 were refused by a workbook whose
\* sheets are Data and Notes, and the workbook is as uploaded
C10_Witness ==
    /\ \E w \in Writers :
          /\ wreq[w].sheetId = "Sheet1"
          /\ wres[w].status = 500
          /\ wres[w].available = << "Data", "Notes" >>
    /\ resp.request.sheetId = "Sheet1"
    /\ resp.status = 500
    /\ resp.available = << "Data", "Notes" >>
    /\ Stored = BookMixed

BadBounds(req) ==
    \/ req.rowStart > req.rowEnd \/ req.colStart > req.colEnd
    \/ req.rowStart < 1 \/ req.colStart < 1
invalidRange ==
    {"Invalid range: start must be <= end",
     "Invalid range: start values must be >= 1 (Excel uses 1-based indexing)"}

\* C11: a window request that names a sheet and whose bounds break
\* rowStart <= rowEnd, colStart <= colEnd, rowStart >= 1 or colStart >= 1 is
\* answered 400 with an invalid-range message; the answer carries no data and
\* no window, so the reader was not called.
C11_BadBoundsRejected ==
    (resp.status # 0 /\ resp.request.sheetId # "" /\ BadBounds(resp.request)) =>
        /\ resp.status = 400
        /\ resp.message \in invalidRange
        /\ resp.data = <<>>
        /\ resp.meta = NoMeta
        /\ resp.available = <<>>

\* a request for rows 0..1 was refused
C11_Witness ==
    /\ resp.status = 400
    /\ resp.request = WindowRequest("Data", 0, 1, 1, 2)
    /\ resp.message = "Invalid range: start values must be >= 1 (Excel uses 1-based indexing)"

(***************************************************************************)
(* A batch of key-value updates followed by window reads of its snapshot   *)
(***************************************************************************)
SetAmyRevenue == Action("UPDATE_KEY_VALUE",
            [NoParams EXCEPT !.keyColumn = Str(sName), !.keyValue = Str(<< " ", "a", "m", "y" >>),
                             !.valueColumn = Str(sRevenue), !.newValue = Num(5)])
ReplaceOld100 == Action("UPDATE_KEY_VALUE",
            [NoParams EXCEPT !.keyColumn = Str(sName), !.keyValue = Str(s100),
                             !.newValue = Str(sZ)])
SetMissingKey == Action("UPDATE_KEY_VALUE",
            [NoParams EXCEPT !.keyColumn = Str(sMissing), !.keyValue = Str(sAmy),
                             !.newValue = Num(5)])
SetUnknownColumn == Action("UPDATE_KEY_VALUE",
            [NoParams EXCEPT !.keyColumn = Str(sRevenue), !.keyValue = Num(300),
                             !.valueColumn = Str(sMissing), !.newValue = Str(sTax)])
KeyValueCandidates == {RenameKey, SetAmyRevenue, ReplaceOld100, SetMissingKey, SetUnknownColumn}
KeyValueLists ==
    {<< a >> : a \in KeyValueCandidates}
    \cup {<< a, b >> : a \in KeyValueCandidates, b \in KeyValueCandidates}

\* the windows a client asks of the snapshot a batch returned
SnapshotRequests(workbook) ==
    {WindowRequest(workbook[k].name, r[1], r[2], c[1], c[2]) :
        k \in 1..Len(workbook),
        r \in {<< 1, 1 >>, << 2, 3 >>, << 4, 5 >>},
        c \in {<< 1, 2 >>, << 2, 3 >>}}

\* getSheetWindow on the file path executeAICommand returned
ReadSnapshot ==
    /\ pc = "done"
    /\ ret.filePath # NoPath
    /\ GetSheetWindowOf(ret.filePath, SnapshotRequests(files[ret.filePath]))

NextRound == CommandFrom(KeyValueLists) \/ Step \/ Return \/ ReadSnapshot
SpecRound == Init /\ [][NextRound]_vars

\* the addresses UpdateKeyValue resolves on a worksheet: the rows whose key
\* cell or target cell matches keyValue, in the target column
KeyValueTargetColumn(ws, params) ==
    LET key == getColumnIndex(ws, params.keyColumn.s).colIndex
        val == IF Truthy(params.valueColumn)
               THEN getColumnIndex(ws, params.valueColumn.s).colIndex
               ELSE -1
    IN  IF val = -1 THEN key + 1 ELSE val
KeyValueTargets(ws, params) ==
    LET key == getColumnIndex(ws, params.keyColumn.s).colIndex
        target == KeyValueTargetColumn(ws, params)
    IN  {<< r, target >> : r \in {x \in RowNumbers(ws) :
                                    \/ LooseMatch(Get(ws, x, key), params.keyValue)
                                    \/ LooseMatch(Get(ws, x, target), params.keyValue)}}
InWindow(win, rc) ==
    /\ win.rowStart <= rc[1] /\ rc[1] <= win.rowEnd
    /\ win.colStart <= rc[2] /\ rc[2] <= win.colEnd
\* the value a response holds for the address rc of the window it reports
ValueAt(response, rc) ==
    response.data[rc[1] - response.meta.window.rowStart + 1]
                 [rc[2] - response.meta.window.colStart + 1]
\* a window of the sheet the batch works on was read from the snapshot of
\* its last successful step
ReadBack ==
    /\ pc = "done"
    /\ i >= 1
    /\ resp.status = 200
    /\ resp.meta.sheetName = files[ret.filePath][1].name

\* C12: when the last successful step of a batch was an UpdateKeyValue, a
\* window read of the snapshot it returned holds newValue at every address
\* the update resolved (matching row, target column) that lies in the window
\* the response reports.
C12_ReadBackShowsNewValue ==
    ReadBack =>
        \A rc \in KeyValueTargets(files[InputOf(i)][1], validatedActions[i].params) :
            InWindow(resp.meta.window, rc) =>
                ValueAt(resp, rc) = validatedActions[i].params.newValue

\* Scenario D was read back: row 1 of the snapshot reads Name, Raj
C12_Witness ==
    /\ ReadBack
    /\ Len(validatedActions) = 1
    /\ validatedActions[1].params.newValue = Str(sRaj)
    /\ files[UploadPath] = BookKV
    /\ resp.request = WindowRequest("Config", 1, 1, 1, 2)
    /\ ValueAt(resp, << 1, 1 >>) = Str(sName)
    /\ ValueAt(resp, << 1, 2 >>) = Str(sRaj)

(***************************************************************************)
(* getColumnIndex on its own                                               *)
(***************************************************************************)
sNamePadded == << " ", "n", "A", "M", "E", " " >>
s0 == << "0" >>
\* the sheets with any of four values, or none, at five positions: two in
\* row 1, one in row 2, one in the last row scanned and one below it
ResolverPositions == {<< 1, 1 >>, << 1, 2 >>, << 2, 1 >>, << ScanDepth, 2 >>, << ScanDepth + 1, 1 >>}
ResolverValues == {Str(sName), Str(sNamePadded), Num(0), Rich(<< << "N", "a" >>, << "m", "e" >> >>)}
ResolverSheets ==
    {Sheet("Sheet1", [rc \in filled |-> IF rc[2] = 1 THEN v ELSE w]) :
        filled \in SUBSET ResolverPositions, v \in ResolverValues, w \in ResolverValues}
ResolverNames == {sName, sNamePadded, s0, sTax}

InitResolver ==
    /\ files = [p \in {UploadPath} |-> BookA]
    /\ now = 1
    /\ InitBatchVars
    /\ InitClient
    /\ InitGridVars
    /\ \E ws \in ResolverSheets, name \in ResolverNames :
          call = [op |-> "getColumnIndex", ws |-> ws, name |-> name]
    /\ outcome = NoCall

Resolve ==
    /\ call.op = "getColumnIndex"
    /\ outcome = NoCall
    /\ outcome' = [op |-> call.op, result |-> getColumnIndex(call.ws, call.name)]
    /\ UNCHANGED << files, now, batchVars, gridVars, client, call >>

NextResolver == Resolve
SpecResolver == InitResolver /\ [][NextResolver]_vars

\* the text of a cell value
StatedText(v) == IF v.t = "rich" THEN Concat(v.runs) ELSE ValueToString(v)
\* the cells of the rows scanned whose text is name, trimmed and lower-cased
StatedHits(ws, name) ==
    {rc \in DOMAIN ws.cells :
        /\ rc[1] <= ScanDepth
        /\ ToLower(Trim(StatedText(ws.cells[rc]))) = ToLower(Trim(name))}
FirstOf(hits) ==
    CHOOSE rc \in hits : \A x \in hits : rc[1] < x[1] \/ (rc[1] = x[1] /\ rc[2] <= x[2])

\* C13: getColumnIndex returns the column and row of the first cell, rows
\* ascending then columns ascending, among the cells of rows 1..20 whose text
\* is the name after trimming and lower-casing both; it returns -1, -1 when
\* there is no such cell.
C13_ResolverFindsFirstMatch ==
    outcome # NoCall =>
        LET hits == StatedHits(call.ws, call.name) IN
        IF hits = {}
        THEN outcome.result = [colIndex |-> -1, foundAtRow |-> -1]
        ELSE outcome.result = [colIndex |-> FirstOf(hits)[2], foundAtRow |-> FirstOf(hits)[1]]

(***************************************************************************)
(* One action on one worksheet: validateActionObject, then the handler     *)
(* processExcelAction dispatches to, and the same action once more on the  *)
(* worksheet the handler left                                              *)
(***************************************************************************)
sOneA == << "1", "a" >>
SortAsc == Action("SORT_DATA",
            [NoParams EXCEPT !.column = Str(sRevenue), !.order = Str(<< "A","s","c" >>)])
SortByName == Action("SORT_DATA",
            [NoParams EXCEPT !.column = Str(<< "n","a","m","e"," " >>), !.order = Str(sAsc)])
\* Name, Revenue / Raj, k1 / Amy, k2 / (no row 4) / Z, k3
SortKeys == {Null, Num(100), Num(300), Str(s100), Str(sAmy), Str(sOneA)}
SortBase == Sheet("Sheet1",
              (<< 1, 1 >> :> Str(sName)) @@ (<< 1, 2 >> :> Str(sRevenue)) @@
              (<< 2, 1 >> :> Str(sRaj)) @@ (<< 3, 1 >> :> Str(sAmy)) @@
              (<< 5, 1 >> :> Str(sZ)))
SortSheets ==
    {SetValue(SetValue(SetValue(SortBase, 2, 2, k1), 3, 2, k2), 5, 2, k3) :
        k1 \in SortKeys, k2 \in SortKeys, k3 \in SortKeys}
    \cup {BookTwo[1], BookA[1]}
Calls(sheets, actions) ==
    {[op |-> "dispatch", ws |-> ws, action |-> a, again |-> FALSE] :
        ws \in sheets, a \in actions}
SortCalls == Calls(SortSheets, {SortDesc, SortAsc, SortByName, SortMissing})
\* a sheet with a title row and a totals row above its header row
BookTotals == << Sheet("Summary",
                   (<< 1, 1 >> :> Str(sReport)) @@
                   (<< 2, 1 >> :> Str(sZ)) @@ (<< 2, 2 >> :> Num(400)) @@
                   (<< 3, 1 >> :> Str(sName)) @@ (<< 3, 2 >> :> Str(sRevenue)) @@
                   (<< 4, 1 >> :> Str(sRaj)) @@ (<< 4, 2 >> :> Num(100)) @@
                   (<< 5, 1 >> :> Str(sAmy)) @@ (<< 5, 2 >> :> Str(s300))) >>
HighlightSmall == Action("HIGHLIGHT_ROWS",
            [NoParams EXCEPT !.condition = Str(sRevenue \o << "<", "=", "1", "0", "0" >>),
                             !.color = Str(<< "F", "F", "0", "0", "0", "0" >>)])
HighlightMissing == Action("HIGHLIGHT_ROWS",
            [NoParams EXCEPT !.condition = Str(sMissing \o << ">", "1" >>)])
HighlightNoOperator == Action("HIGHLIGHT_ROWS",
            [NoParams EXCEPT !.condition = Str(sRevenue)])
HighlightCalls ==
    Calls({BookA[1], BookTwo[1], BookTotals[1]},
          {HighlightBig, HighlightSmall, HighlightMissing, HighlightNoOperator})
\* arithmetic on every cell of the matching rows: no target column is named
RaiseAllAmy == Action("UPDATE_ROW_VALUES",
            [NoParams EXCEPT !.filterColumn = Str(sName),
                             !.filterValue = Str(<< "a","m","y" >>),
                             !.operation = Str(<< "+" >>), !.value = Num(10)])
DivideAllByZero == Action("UPDATE_ROW_VALUES",
            [NoParams EXCEPT !.filterColumn = Str(sName), !.filterValue = Str(sRaj),
                             !.operation = Str(<< "/" >>), !.value = Num(0)])
UpdateRowCalls ==
    Calls({BookA[1], BookTwo[1], BookTotals[1]},
          {RaiseAmy, RaiseAllAmy, DivideAllByZero, SetNoTarget})
KeyValueCalls ==
    Calls({BookKV[1], BookA[1], BookTwo[1], BookTotals[1]}, KeyValueCandidates)
ReplaceInRevenue == Action("FIND_AND_REPLACE",
            [NoParams EXCEPT !.findValue = Num(100), !.replaceValue = Str(sZ),
                             !.column = Str(sRevenue)])
ReplaceCalls ==
    Calls({BookA[1], BookKV[1], BookTwo[1], BookTotals[1]},
          {Replace100, ReplaceInMissing, ReplaceNone, ReplaceInRevenue})
\* a sheet with a column of booleans and a number
sActive == << "A","c","t","i","v","e" >>
s5000 == << "5","0","0","0" >>
BookFlags == << Sheet("Flags",
                  (<< 1, 1 >> :> Str(sName)) @@ (<< 1, 2 >> :> Str(sActive)) @@
                  (<< 1, 3 >> :> Str(sRevenue)) @@
                  (<< 2, 1 >> :> Str(sRaj)) @@ (<< 2, 2 >> :> Bool(TRUE)) @@
                  (<< 2, 3 >> :> Num(5000)) @@
                  (<< 3, 1 >> :> Str(sAmy)) @@ (<< 3, 2 >> :> Bool(FALSE)) @@
                  (<< 3, 3 >> :> Str(<< " ", "5", "0", "0", "0" >>))) >>
Replace5000 == Action("FIND_AND_REPLACE",
            [NoParams EXCEPT !.findValue = Str(s5000), !.replaceValue = Num(1)])
Replace5000InRevenue == Action("FIND_AND_REPLACE",
            [NoParams EXCEPT !.findValue = Str(s5000), !.replaceValue = Num(1),
                             !.column = Str(sRevenue)])
ReplaceTrueText == Action("FIND_AND_REPLACE",
            [NoParams EXCEPT !.findValue = Str(<< "T","R","U","E" >>),
                             !.replaceValue = Str(sZ)])
ReplaceFalseText == Action("FIND_AND_REPLACE",
            [NoParams EXCEPT !.findValue = Str(<< "F","A","L","S","E" >>),
                             !.replaceValue = Str(sZ)])
ReplaceFalse == Action("FIND_AND_REPLACE",
            [NoParams EXCEPT !.findValue = Bool(FALSE), !.replaceValue = Str(sZ)])
ReplaceFlagCalls ==
    Calls({BookFlags[1], BookA[1]},
          {Replace5000, Replace5000InRevenue, ReplaceTrueText, ReplaceFalseText,
           ReplaceFalse})
SetLowerB2 == Action("SET_CELL",
            [NoParams EXCEPT !.cell = Str(<< "b", "2" >>), !.value = Num(7)])
SetD7 == Action("SET_CELL",
            [NoParams EXCEPT !.cell = Str(<< " ", "D", "7" >>), !.value = Str(sZ)])
SetCellCalls ==
    Calls({BookA[1], BookTwo[1], BookKV[1]},
          {SetB2, SetD7, SetLowerB2, SetTooFar, SetBadCell})
AddMargin == Action("ADD_COLUMN",
            [NoParams EXCEPT !.columnName = Str(sZ),
                             !.formula = Str(<< "r","e","v","e","n","u","e" >> \o << "-" >>
                                             \o sRevenue \o << "/", "2" >>)])
AddColumnCalls ==
    Calls({BookA[1], BookKV[1], BookFlags[1], BookTwo[1], BookTotals[1]}, {AddTax, AddMargin})
HandlerCalls ==
    SortCalls \cup HighlightCalls \cup UpdateRowCalls \cup KeyValueCalls \cup ReplaceCalls
    \cup ReplaceFlagCalls \cup SetCellCalls \cup AddColumnCalls

InitHandler ==
    /\ files = [p \in {UploadPath} |-> BookA]
    /\ now = 1
    /\ InitBatchVars
    /\ InitClient
    /\ InitGridVars
    /\ call \in HandlerCalls
    /\ outcome = NoCall

\* validateActionObject (aiService.js 225), then the switch of
\* processExcelAction (excelService.js 450-476)
Handled(ws, action) ==
    IF ~ValidAction(action)
    THEN [op |-> "dispatch", ok |-> FALSE, ws |-> ws, err |-> "AICommandValidationError"]
    ELSE LET Tag(r) == [op |-> "dispatch", ok |-> r.ok, ws |-> r.ws, err |-> r.err]
         IN  Tag(Dispatch(ws, validateActionObject(action)))

Apply ==
    /\ call.op = "dispatch"
    /\ outcome = NoCall
    /\ outcome' = Handled(call.ws, call.action)
    /\ UNCHANGED << files, now, batchVars, gridVars, client, call >>

ApplyAgain ==
    /\ outcome # NoCall
    /\ outcome.op = "dispatch"
    /\ outcome.ok
    /\ ~call.again
    /\ call' = [call EXCEPT !.ws = outcome.ws, !.again = TRUE]
    /\ outcome' = Handled(outcome.ws, call.action)
    /\ UNCHANGED << files, now, batchVars, gridVars, client >>

NextHandler == Apply \/ ApplyAgain
SpecHandler == InitHandler /\ [][NextHandler]_vars

Applied(name) ==
    /\ outcome # NoCall
    /\ outcome.op = "dispatch"
    /\ call.action.action = name
\* the contents of the rows of a worksheet, top to bottom
RowContents(ws) == [k \in 1..Len(EachRow(ws)) |-> RowValues(ws, EachRow(ws)[k])]

\* C14: SortData applied to the worksheet a SortData with the same column and
\* order left changes nothing: the rows keep their contents in the same order.
C14_SortIsIdempotent ==
    (Applied("SORT_DATA") /\ call.again) =>
        /\ outcome.ok
        /\ RowContents(outcome.ws) = RowContents(call.ws)
        /\ outcome.ws.cells = call.ws.cells

\* a sort that moved rows, two of them with equal keys, was applied again
C14_Witness ==
    /\ Applied("SORT_DATA")
    /\ call.again
    /\ outcome.ok
    /\ Get(call.ws, 2, 2) = Get(call.ws, 3, 2)
    /\ Get(call.ws, 2, 2) = Num(300)
    /\ Get(call.ws, 5, 2) = Num(100)
    /\ Get(call.ws, 2, 1) = Str(sRaj)
    /\ call.action.params.order = Str(<< "D","E","S","C" >>)

\* the number of rows below row h of a worksheet whose contents are c
CountBelow(ws, h, c) == Cardinality({r \in RowNumbers(ws) : r > h /\ RowValues(ws, r) = c})

\* C15: SortData leaves the set of row numbers that hold data, and so the
\* row count, as they were, leaves the header row and every row above it as
\* they were, and leaves below the header row the same row contents, each as
\* many times as before; a SortData that fails changes nothing.
C15_SortPermutesContents ==
    Applied("SORT_DATA") =>
        LET h == getColumnIndex(call.ws, call.action.params.column.s).foundAtRow IN
        /\ RowNumbers(outcome.ws) = RowNumbers(call.ws)
        /\ Len(EachRow(outcome.ws)) = Len(EachRow(call.ws))
        /\ outcome.ok <=> h # -1
        /\ ~outcome.ok => outcome.ws = call.ws
        /\ outcome.ok =>
              /\ \A r \in RowNumbers(call.ws) :
                    r <= h => RowValues(outcome.ws, r) = RowValues(call.ws, r)
              /\ \A r \in RowNumbers(call.ws) :
                    CountBelow(outcome.ws, h, RowValues(call.ws, r))
                        = CountBelow(call.ws, h, RowValues(call.ws, r))

\* a sort has moved the rows of a sheet whose data rows are 2, 3 and 5
C15_Witness ==
    /\ Applied("SORT_DATA")
    /\ ~call.again
    /\ outcome.ok
    /\ RowNumbers(call.ws) = {1, 2, 3, 5}
    /\ RowValues(outcome.ws, 2) = RowValues(call.ws, 5)
    /\ RowValues(outcome.ws, 5) = RowValues(call.ws, 3)
    /\ RowValues(outcome.ws, 2) # RowValues(call.ws, 2)

\* the sort key of row r after a sort on the column the call names
KeyAfter(r) ==
    Get(outcome.ws, r, getColumnIndex(call.ws, call.action.params.column.s).colIndex)
HeaderRowOf(ws, column) == getColumnIndex(ws, column.s).foundAtRow

\* C16: after SortData, asc or desc, no row without a sort key stands above a
\* row with one; for two keys that are there, desc orders them the other way
\* round than asc; Scenario A sorted desc by Revenue reads Amy 300, Raj 100, Z.
C16_MissingKeysLast ==
    (Applied("SORT_DATA") /\ outcome.ok) =>
        LET below == {r \in RowNumbers(outcome.ws) :
                        r > HeaderRowOf(call.ws, call.action.params.column)}
        IN  /\ \A r1 \in below, r2 \in below :
                  (IsNullish(KeyAfter(r1)) /\ ~IsNullish(KeyAfter(r2))) => r2 < r1
            /\ \A r1 \in below, r2 \in below :
                  (~IsNullish(KeyAfter(r1)) /\ ~IsNullish(KeyAfter(r2))) =>
                      /\ SortCompare(KeyAfter(r1), KeyAfter(r2), sDesc)
                            = 0 - SortCompare(KeyAfter(r1), KeyAfter(r2), sAsc)
                      /\ (r1 < r2 /\ ToNumber(KeyAfter(r1)).ok /\ ToNumber(KeyAfter(r2)).ok) =>
                            IF validateActionObject(call.action).params.order.s = sDesc
                            THEN ToNumber(KeyAfter(r1)).n >= ToNumber(KeyAfter(r2)).n
                            ELSE ToNumber(KeyAfter(r1)).n <= ToNumber(KeyAfter(r2)).n
            /\ (call.ws = BookA[1] /\ call.action = SortDesc) =>
                  RowContents(outcome.ws) =
                      << RowValues(BookA[1], 1), RowValues(BookA[1], 3),
                         RowValues(BookA[1], 2), RowValues(BookA[1], 4) >>

\* Scenario A was sorted desc by Revenue: Amy came first, the row without a
\* key stayed last
C16_Witness ==
    /\ Applied("SORT_DATA")
    /\ outcome.ok
    /\ ~call.again
    /\ call.ws = BookA[1]
    /\ call.action = SortDesc
    /\ Get(outcome.ws, 2, 1) = Str(sAmy)
    /\ Get(outcome.ws, 4, 1) = Str(sZ)
    /\ Get(outcome.ws, 4, 2) = Null

\* the rows the statement of HighlightRows names: strictly below the header
\* row of the condition's column, with a target cell that parses as a number
\* and satisfies the comparison
StatedHighlightRows(ws, params) ==
    LET condition == params.condition.s
        k == FindOperator(condition)
    IN  IF k = 0 THEN {}
        ELSE LET parts == Split(condition, operators[k])
                 found == getColumnIndex(ws, Trim(parts[1]))
                 threshold == ParseFloatString(Trim(parts[2]))
             IN  IF found.colIndex = -1 THEN {}
                 ELSE {r \in RowNumbers(ws) :
                         /\ r > found.foundAtRow
                         /\ ParseFloat(Get(ws, r, found.colIndex)).ok
                         /\ Compare(operators[k], ParseFloat(Get(ws, r, found.colIndex)).n,
                                    threshold)}
FilledRows(ws) == {rc[1] : rc \in DOMAIN ws.fill}

\* C17: HighlightRows on a sheet without fills fills exactly the rows strictly
\* below the header row whose target cell parses as a number and satisfies the
\* comparison, and no row at or above the header row.
C17_HighlightExactlyMatching ==
    (Applied("HIGHLIGHT_ROWS") /\ outcome.ok /\ ~call.again) =>
        /\ FilledRows(outcome.ws) = StatedHighlightRows(call.ws, call.action.params)
        /\ outcome.ws.cells = call.ws.cells

\* the rows the statement of UpdateRowValues names: every row but the header
\* row of the filter column whose filter cell loosely matches filterValue
StatedMatchingRows(ws, params) ==
    LET found == getColumnIndex(ws, params.filterColumn.s)
    IN  {r \in RowNumbers(ws) :
            /\ r # found.foundAtRow
            /\ LooseMatch(Get(ws, r, found.colIndex), params.filterValue)}
Arithmetic(params) ==
    params.operation.s \in {<< "+" >>, << "-" >>, << "*" >>, << "/" >>}
NoTargetColumn(params) == params.targetColumn \in {Undef, Null}

\* C18: a validated UpdateRowValues with an arithmetic operation and no
\* targetColumn, on a sheet where the filter column resolves and a row
\* matches, succeeds; every cell of a matching row but the filter cell holds
\* the computed number (cells that do not parse as a number, and every cell
\* when dividing by zero, keep their value), and no other cell changes.
C18_ArithmeticOnWholeRow ==
    (/\ Applied("UPDATE_ROW_VALUES")
     /\ ~call.again
     /\ Arithmetic(call.action.params)
     /\ NoTargetColumn(call.action.params)
     /\ getColumnIndex(call.ws, call.action.params.filterColumn.s).colIndex # -1
     /\ StatedMatchingRows(call.ws, call.action.params) # {}) =>
        /\ outcome.ok
        /\ DOMAIN outcome.ws.cells = DOMAIN call.ws.cells
        /\ \A rc \in DOMAIN call.ws.cells :
              outcome.ws.cells[rc] =
                  IF /\ rc[1] \in StatedMatchingRows(call.ws, call.action.params)
                     /\ rc[2] # getColumnIndex(call.ws,
                                               call.action.params.filterColumn.s).colIndex
                  THEN UpdatedValue(call.ws.cells[rc], call.action.params.operation.s,
                                    call.action.params.value)
                  ELSE call.ws.cells[rc]

Occurrences(ws, findValue) == {rc \in DOMAIN ws.cells : LooseMatch(ws.cells[rc], findValue)}

\* C20: FindAndReplace given a column that does not resolve fails and leaves
\* every cell as it was, also when findValue occurs in the sheet: there is no
\* search of the whole sheet instead.
C20_UnresolvedColumnFails ==
    (/\ Applied("FIND_AND_REPLACE")
     /\ Truthy(call.action.params.column)
     /\ getColumnIndex(call.ws, call.action.params.column.s).colIndex = -1) =>
        /\ ~outcome.ok
        /\ outcome.err = "Column not found"
        /\ outcome.ws = call.ws

\* a replacement restricted to a column the sheet does not have was refused
\* although the sheet holds the value looked for
C20_Witness ==
    /\ Applied("FIND_AND_REPLACE")
    /\ call.ws = BookA[1]
    /\ call.action = ReplaceInMissing
    /\ Occurrences(call.ws, call.action.params.findValue) # {}
    /\ ~outcome.ok
    /\ outcome.ws = BookA[1]

\* the loose match as it is stated: equal under native equality, or both
\* non-empty and equal as trimmed text without regard to case
NonEmptyText(v) == ~IsNullish(v) /\ Trim(ValueToString(v)) # <<>>
StatedLooseMatch(a, b) ==
    \/ LooseEq(a, b)
    \/ /\ NonEmptyText(a)
       /\ NonEmptyText(b)
       /\ ToLower(Trim(ValueToString(a))) = ToLower(Trim(ValueToString(b)))
\* the cells FindAndReplace is stated to replace
StatedReplaced(ws, params) ==
    LET col == IF Truthy(params.column) THEN getColumnIndex(ws, params.column.s).colIndex
               ELSE -1
    IN  {rc \in DOMAIN ws.cells :
            /\ col = -1 \/ rc[2] = col
            /\ StatedLooseMatch(ws.cells[rc], params.findValue)}
ColumnUsable(ws, params) ==
    Truthy(params.column) => getColumnIndex(ws, params.column.s).colIndex # -1

\* C21: FindAndReplace, over the whole sheet or the column it resolved,
\* replaces exactly the non-empty cells whose value loosely matches findValue
\* (natively equal, or both non-empty and equal as trimmed text without regard
\* to case), leaves every other cell unchanged, and fails with no change when
\* no cell matches.
C21_ReplacesExactlyMatches ==
    (Applied("FIND_AND_REPLACE") /\ ColumnUsable(call.ws, call.action.params)) =>
        LET hits == StatedReplaced(call.ws, call.action.params)
        IN  /\ outcome.ok <=> (hits # {})
            /\ ~outcome.ok => outcome.ws = call.ws
            /\ outcome.ok =>
                  /\ DOMAIN outcome.ws.cells = DOMAIN call.ws.cells
                  /\ \A rc \in DOMAIN call.ws.cells :
                        outcome.ws.cells[rc] =
                            IF rc \in hits THEN call.action.params.replaceValue
                            ELSE call.ws.cells[rc]

\* the cell an address names: its letters, in either case, are the column in
\* base 26 (A is 1) and its digits are the row
ToUpperChar(c) == IF IsLower(c) THEN Upper[IndexIn(Lower, c)] ELSE c
RECURSIVE LettersToColumn(_, _)
LettersToColumn(s, acc) ==
    IF s = <<>> THEN acc
    ELSE LettersToColumn(Tail(s), acc * 26 + IndexIn(Upper, ToUpperChar(Head(s))))
StatedCell(address) ==
    LET t == Trim(address)
        k == LetterPrefixLen(t)
    IN  << DigitsToNat(SubSeq(t, k + 1, Len(t)), 0), LettersToColumn(SubSeq(t, 1, k), 0) >>

\* C22: SetCell with an address that is not letters followed by digits fails
\* and changes nothing; with an address of that form it succeeds, the cell
\* the address names holds value, and every other cell is unchanged.
C22_SetCellWritesOneCell ==
    Applied("SET_CELL") =>
        IF ~IsCellAddress(call.action.params.cell.s)
        THEN ~outcome.ok /\ outcome.ws = call.ws
        ELSE LET rc == StatedCell(call.action.params.cell.s)
             IN  /\ outcome.ok
                 /\ DOMAIN outcome.ws.cells = DOMAIN call.ws.cells \cup {rc}
                 /\ \A x \in DOMAIN outcome.ws.cells :
                       outcome.ws.cells[x] = IF x = rc THEN call.action.params.value
                                             ELSE call.ws.cells[x]
                 /\ outcome.ws.fill = call.ws.fill

\* the rewriting of a formula template as it is stated: every whole-word
\* occurrence, in any case, of the text of a row-1 cell becomes the letters of
\* that cell's column followed by the row number
HeaderText(ws, c) == ValueToString(ws.cells[<< 1, c >>])
HeadersAt(ws, text, p) == {c \in ColNumbers(ws, 1) : MatchAt(text, HeaderText(ws, c), p)}
RECURSIVE StatedRewriteFrom(_, _, _, _)
StatedRewriteFrom(ws, text, r, p) ==
    IF p > Len(text) THEN <<>>
    ELSE IF HeadersAt(ws, text, p) # {}
         THEN LET c == Max(HeadersAt(ws, text, p))
              IN  colLetter(c) \o NatToString(r)
                  \o StatedRewriteFrom(ws, text, r, p + Len(HeaderText(ws, c)))
         ELSE << text[p] >> \o StatedRewriteFrom(ws, text, r, p + 1)
StatedNewColumn(ws) == Max(ColNumbers(ws, 1) \cup {0}) + 1

\* C23: AddColumn writes columnName into row 1 of the column after the highest
\* used column of row 1 and, into that column of every populated row r > 1, a
\* formula whose text is the template with the header names replaced by their
\* cells of row r; no cell the sheet had before is changed.
C23_AddColumnAppends ==
    (Applied("ADD_COLUMN") /\ ~call.again) =>
        LET new == StatedNewColumn(call.ws)
        IN  /\ outcome.ok
            /\ Get(outcome.ws, 1, new) = call.action.params.columnName
            /\ \A r \in RowNumbers(call.ws) \ {1} :
                  Get(outcome.ws, r, new) =
                      Formula(StatedRewriteFrom(call.ws, call.action.params.formula.s, r, 1))
            /\ \A rc \in DOMAIN call.ws.cells : Get(outcome.ws, rc[1], rc[2]) = call.ws.cells[rc]
            /\ DOMAIN outcome.ws.cells =
                  DOMAIN call.ws.cells \cup {<< r, new >> : r \in RowNumbers(call.ws) \cup {1}}

(***************************************************************************)
(* executeAICommand(command, filePath, sheetId) for a workbook of several  *)
(* sheets: the caller's sheetId is kept in call.  Line 234 hands it to     *)
(* processExcelAction as a third argument; processExcelAction (line 436)   *)
(* declares two parameters and takes workbook.worksheets[0].               *)
(***************************************************************************)
\* the second workbook has the sheets of the first in the other order
BookTwoSwapped == << BookTwo[2], BookTwo[1] >>
SheetBooks == {BookTwo, BookTwoSwapped}
SheetIds == {"", "Data", "Notes"}
SheetCandidates == {Replace100, SetB2, HighlightBig, SortMissing}
SheetLists ==
    {<< a >> : a \in SheetCandidates}
    \cup {<< a, b >> : a \in SheetCandidates, b \in SheetCandidates}
InitSheet ==
    /\ \E wb \in SheetBooks : files = [p \in {UploadPath} |-> wb]
    /\ now = 1
    /\ InitBatchVars
    /\ InitClient
    /\ InitGridVars
    /\ \E id \in SheetIds : call = [op |-> "executeAICommand", sheetId |-> id]
    /\ outcome = NoCall
NextSheet == CommandFrom(SheetLists) \/ Step \/ Return
SpecSheet == InitSheet /\ [][NextSheet]_vars

\* the position of the sheet an action is stated to work on: the first one
\* unless the caller names a sheet
StatedTarget(workbook, sheetId) ==
    IF sheetId = "" THEN 1
    ELSE CHOOSE k \in 1..Len(workbook) : workbook[k].name = sheetId

\* C24: a successful step of a command changes the sheet the caller named, or
\* the first sheet when none was named, as its action prescribes, and leaves
\* every other sheet of the workbook, the first one included, unchanged.
C24_NamedSheetIsTheTarget ==
    (call.op = "executeAICommand") =>
        \A k \in 1..Len(results) :
            results[k].success =>
                LET before == files[InputOf(k)]
                    after == files[results[k].filePath]
                    target == StatedTarget(before, call.sheetId)
                IN  /\ Len(after) = Len(before)
                    /\ \A j \in 1..Len(before) :
                          after[j] = IF j = target
                                     THEN Dispatch(before[j], validatedActions[k]).ws
                                     ELSE before[j]

(***************************************************************************)
(* addSheet, renameSheet, deleteSheet (excelService.js 570-607) and        *)
(* updateCell (550-568), one request after the other on the uploaded       *)
(* file: each loads the workbook, changes it and writes it back in place.  *)
(* workbook.getWorksheet(name) compares names exactly.  The library's own  *)
(* check of a new name, which ignores case and throws "Worksheet name      *)
(* already exists", is there in some releases and not in others: strict    *)
(* tells which one the build has.                                          *)
(***************************************************************************)
SheetNamePool == {"Data", "Notes", "data", "Q1"}
\* String.prototype.toLowerCase of the names of the pool
LowerName(name) == IF name = "Data" THEN "data" ELSE name
NameTaken(workbook, name) ==
    \E k \in 1..Len(workbook) : LowerName(workbook[k].name) = LowerName(name)
Kept(workbook) == [ok |-> TRUE, err |-> "none", workbook |-> workbook]
Refused(workbook, msg) == [ok |-> FALSE, err |-> msg, workbook |-> workbook]
RemoveAt(seq, k) == [j \in 1..(Len(seq) - 1) |-> IF j < k THEN seq[j] ELSE seq[j + 1]]

addSheet(workbook, name, strict) ==
    IF getWorksheet(workbook, name) # 0 THEN Refused(workbook, "Sheet already exists")
    ELSE IF strict /\ NameTaken(workbook, name)
    THEN Refused(workbook, "Worksheet name already exists")
    ELSE Kept(Append(workbook, Sheet(name, [rc \in {} |-> Null])))

\* (a variant that renames without looking for the new name)
renameSheetUnchecked(workbook, sheetId, newName, strict) ==
    IF getWorksheet(workbook, sheetId) = 0 THEN Refused(workbook, "Sheet not found")
    ELSE Kept([workbook EXCEPT ![getWorksheet(workbook, sheetId)].name = newName])

renameSheet(workbook, sheetId, newName, strict) ==
    IF getWorksheet(workbook, sheetId) = 0 THEN Refused(workbook, "Sheet not found")
    ELSE IF getWorksheet(workbook, newName) # 0
    THEN Refused(workbook, "Sheet already exists")
    ELSE IF strict /\ NameTaken(workbook, newName)
    THEN Refused(workbook, "Worksheet name already exists")
    ELSE Kept([workbook EXCEPT ![getWorksheet(workbook, sheetId)].name = newName])

deleteSheet(workbook, sheetId) ==
    IF getWorksheet(workbook, sheetId) = 0 THEN Refused(workbook, "Sheet not found")
    ELSE Kept(RemoveAt(workbook, getWorksheet(workbook, sheetId)))

MaxSheets == 3
InitSheets ==
    /\ files = [p \in {UploadPath} |-> BookTwo]
    /\ now = 1
    /\ InitBatchVars
    /\ InitClient
    /\ InitGridVars
    /\ InitCallVars

\* a request comes back: the workbook is stored, the request, the workbook it
\* found and its result are kept
Served(request, before, result) ==
    /\ files' = [files EXCEPT ![UploadPath] = result.workbook]
    /\ call' = [op |-> request.op, request |-> request, before |-> before]
    /\ outcome' = [op |-> request.op, ok |-> result.ok, err |-> result.err]
    /\ UNCHANGED << now, batchVars, gridVars, client >>

AddSheet ==
    /\ Len(files[UploadPath]) < MaxSheets
    /\ \E name \in SheetNamePool, strict \in BOOLEAN :
          Served([op |-> "addSheet", sheetId |-> "", name |-> name],
                 files[UploadPath], addSheet(files[UploadPath], name, strict))
RenameSheet ==
    \E sheetId \in SheetNamePool, newName \in SheetNamePool, strict \in BOOLEAN :
        Served([op |-> "renameSheet", sheetId |-> sheetId, name |-> newName],
               files[UploadPath], renameSheet(files[UploadPath], sheetId, newName, strict))
DeleteSheet ==
    \E sheetId \in SheetNamePool :
        Served([op |-> "deleteSheet", sheetId |-> sheetId, name |-> ""],
               files[UploadPath], deleteSheet(files[UploadPath], sheetId))
\* updateCell(filePath, sheetId, 1, 1, 7)
WriteCellByName ==
    \E sheetId \in SheetNamePool :
        \E r \in {updateCell(files, UploadPath, sheetId, 1, 1, Num(7))} :
            Served([op |-> "updateCell", sheetId |-> sheetId, name |-> ""],
                   files[UploadPath],
                   [ok |-> r.ok, err |-> r.error, workbook |-> r.workbook])
NextSheets == AddSheet \/ RenameSheet \/ DeleteSheet \/ WriteCellByName
SpecSheets == InitSheets /\ [][NextSheets]_vars

NamesUnique(workbook) ==
    \A j \in 1..Len(workbook), k \in 1..Len(workbook) :
        workbook[j].name = workbook[k].name => j = k
HasSheet(workbook, name) == \E k \in 1..Len(workbook) : workbook[k].name = name
SheetNamed(workbook, name) == workbook[CHOOSE k \in 1..Len(workbook) : workbook[k].name = name]

\* C25: the sheet names of the workbook are pairwise different after every
\* sequence of addSheet, renameSheet and deleteSheet; addSheet and renameSheet
\* with a name in use, and renameSheet and deleteSheet of a sheet that is not
\* there, fail and leave the workbook as it was; a cell written by sheet name
\* is in the sheet of that name, wherever it stands, and in no other.
C25_SheetNamesStayUnique ==
    /\ NamesUnique(files[UploadPath])
    /\ (call.op \in {"addSheet", "renameSheet"}
          /\ HasSheet(call.before, call.request.name)) =>
            ~outcome.ok /\ files[UploadPath] = call.before
    /\ (call.op \in {"renameSheet", "deleteSheet"}
          /\ ~HasSheet(call.before, call.request.sheetId)) =>
            ~outcome.ok /\ files[UploadPath] = call.before
    /\ (call.op = "updateCell" /\ HasSheet(call.before, call.request.sheetId)) =>
          /\ outcome.ok
          /\ Len(files[UploadPath]) = Len(call.before)
          /\ \A k \in 1..Len(call.before) :
                files[UploadPath][k] =
                    IF call.before[k].name = call.request.sheetId
                    THEN SetValue(call.before[k], 1, 1, Num(7))
                    ELSE call.before[k]

\* after the first sheet was deleted and another renamed, a cell was written
\* by name into a sheet that is not where it was at the start
C25_Witness ==
    /\ call.op = "updateCell"
    /\ outcome.ok
    /\ call.request.sheetId = "Q1"
    /\ Len(files[UploadPath]) = 2
    /\ files[UploadPath][1].name = "Q1"
    /\ files[UploadPath][2].name = "Data"
    /\ Get(files[UploadPath][1], 1, 1) = Num(7)
    /\ Get(files[UploadPath][2], 1, 1) # Num(7)

Submitted == call.op = "executeAICommand" /\ pc # "idle"
SomeInvalid(actions) == \E k \in 1..Len(actions) : ~ValidAction(actions[k])

\* C26: when some action of the submitted list does not pass
\* validateActionObject, the call throws before the loop: no step has a
\* result, nothing is returned, and the store holds the uploaded workbook and
\* nothing else.
C26_ValidationComesFirst ==
    (Submitted /\ SomeInvalid(call.actions)) =>
        /\ pc = "threw"
        /\ results = <<>>
        /\ ret = NoReturn
        /\ DOMAIN files = {UploadPath}
        /\ files[UploadPath] \in BatchBooks

\* a list whose first action is valid and whose second is not was refused
C26_Witness ==
    /\ Submitted
    /\ pc = "threw"
    /\ Len(call.actions) = 2
    /\ ValidAction(call.actions[1])
    /\ Dispatch(files[UploadPath][1], validateActionObject(call.actions[1])).ok
    /\ ~ValidAction(call.actions[2])

\* C27: a step whose action passed validateActionObject, the action ERROR
\* apart, is handed to a handler: it never fails with "Unsupported action".
C27_ValidatedActionsAreDispatched ==
    \A k \in 1..Len(results) :
        validatedActions[k].action # "ERROR" => results[k].message # "Unsupported action"

(***************************************************************************)
(* processExcelAction (excelService.js 436-489) called by two requests at  *)
(* once for the uploaded file.  The function waits twice, for readFile and *)
(* for writeFile; between the two it runs without interruption: the        *)
(* handler, then Date.now() for the new path.  Date.now() counts           *)
(* milliseconds, so two readings may be equal.                             *)
(***************************************************************************)
ConcurrentActions == {AddTax, SetB2, Replace100, SortMissing}
NoActionResult == [ok |-> FALSE, filePath |-> NoPath, message |-> "none"]
InitConcurrent ==
    /\ \E wb \in {BookA, BookTwo} : files = [p \in {UploadPath} |-> wb]
    /\ now = 1
    /\ InitBatchVars
    /\ InitClient
    /\ InitCallVars
    /\ wpc = [w \in Writers |-> "idle"]
    /\ wreq = [w \in Writers |-> Action("", NoParams)]
    /\ wbook = [w \in Writers |-> <<>>]
    /\ wres = [w \in Writers |-> NoActionResult]
    /\ resp = NoResponse

\* lines 438-439: await workbook.xlsx.readFile(filePath)
ActionLoad(w) ==
    /\ wpc[w] = "idle"
    /\ \E a \in ConcurrentActions : wreq' = [wreq EXCEPT ![w] = validateActionObject(a)]
    /\ wbook' = [wbook EXCEPT ![w] = files[UploadPath]]
    /\ wpc' = [wpc EXCEPT ![w] = "loaded"]
    /\ UNCHANGED << files, now, batchVars, callVars, client, wres, resp >>

\* lines 442-479: the handler runs on the first worksheet and the new path is
\* made from the clock; an Error of the handler ends the call
ActionHandle(w) ==
    /\ wpc[w] = "loaded"
    /\ \E time \in now..MaxNow :
       \E r \in {Dispatch(wbook[w][1], wreq[w])} :
          /\ now' = time
          /\ IF r.ok
             THEN /\ wbook' = [wbook EXCEPT ![w] = [wbook[w] EXCEPT ![1] = r.ws]]
                  /\ wres' = [wres EXCEPT ![w] =
                                [ok |-> TRUE, filePath |-> NewFilePath(UploadPath, time),
                                 message |-> "none"]]
                  /\ wpc' = [wpc EXCEPT ![w] = "writing"]
             ELSE /\ wres' = [wres EXCEPT ![w] =
                                [ok |-> FALSE, filePath |-> NoPath, message |-> r.err]]
                  /\ wpc' = [wpc EXCEPT ![w] = "threw"]
                  /\ UNCHANGED wbook
    /\ UNCHANGED << files, batchVars, callVars, client, wreq, resp >>

\* lines 482-488: await workbook.xlsx.writeFile(newFilePath); return newFilePath
ActionWritten(w) ==
    /\ wpc[w] = "writing"
    /\ files' = WriteFile(files, wres[w].filePath, wbook[w])
    /\ wpc' = [wpc EXCEPT ![w] = "returned"]
    /\ UNCHANGED << now, batchVars, callVars, client, wreq, wbook, wres, resp >>

NextConcurrent ==
    \E w \in Writers : ActionLoad(w) \/ ActionHandle(w) \/ ActionWritten(w)
SpecConcurrent == InitConcurrent /\ [][NextConcurrent]_vars

\* C28: a call of processExcelAction that returned wrote its result under a
\* path that is not the path of its input and not the path any other call
\* wrote, also when both calls worked on the same input at the same time:
\* the snapshot under the path a call returned is the workbook that call made.
C28_SnapshotsNeverCollide ==
    \A w \in Writers :
        wpc[w] = "returned" =>
            /\ wres[w].filePath # UploadPath
            /\ files[wres[w].filePath] = wbook[w]
            /\ \A v \in Writers \ {w} :
                  wpc[v] \in {"writing", "returned"} => wres[v].filePath # wres[w].filePath

(***************************************************************************)
(* The client's edit synchronisation (Spreadsheet.jsx 196-267).            *)
(* handleAfterChange pushes each change to pendingEditsRef and re-arms the *)
(* timer; the timer's callback and flushPendingEdits both copy the queue,  *)
(* empty it and send the copied edits one after the other with             *)
(* await updateCell(...), pushing an edit whose call failed back to the    *)
(* queue.  The user goes on editing while a callback waits for the         *)
(* backend.  The backend is updateCell on the uploaded file; a call may    *)
(* fail (network, server error) and then writes nothing.                   *)
(*   client.pendingEdits   pendingEditsRef.current                         *)
(*   client.timer          pendingEditTimerRef is armed                    *)
(*   client.loops          the two routines: their copy of the queue and   *)
(*                         the number of edits they are through            *)
(*   client.made           the number of edits the user has made           *)
(*   client.grid           the value of each cell in the user's grid       *)
(*   client.arrived        the edits the backend wrote, in order           *)
(***************************************************************************)
MaxEdits == 3
GridCells == {<< 0, 0 >>, << 1, 1 >>}
Routines == {"timer", "flush"}
IdleRoutine == [pc |-> "idle", edits |-> <<>>, done |-> 0]
EditSheet == "Data"
InitEdits ==
    /\ files = [p \in {UploadPath} |-> BookTwo]
    /\ now = 1
    /\ InitBatchVars
    /\ InitGridVars
    /\ InitCallVars
    /\ client = [mounted |-> TRUE, pendingEdits |-> <<>>, timer |-> FALSE,
                 loops |-> [l \in Routines |-> IdleRoutine], made |-> 0,
                 grid |-> [c \in GridCells |-> 0], arrived |-> <<>>]

\* lines 196-221: a change of the user's, the n-th, to the grid cell (row, col)
handleAfterChange ==
    /\ client.mounted
    /\ client.made < MaxEdits
    /\ \E cell \in GridCells :
          client' = [client EXCEPT
                        !.made = client.made + 1,
                        !.grid[cell] = client.made + 1,
                        !.pendingEdits = Append(client.pendingEdits,
                            [row |-> cell[1] + 1, col |-> cell[2] + 1,
                             value |-> Num(client.made + 1)]),
                        !.timer = TRUE]
    /\ UNCHANGED << files, now, batchVars, gridVars, callVars >>

\* lines 221-223 and 251-253: const edits = [...pendingEditsRef.current];
\* pendingEditsRef.current = []
TakeQueue(l) ==
    /\ client.loops[l].pc = "idle"
    /\ client' = [client EXCEPT !.loops[l] = [pc |-> "loop", edits |-> client.pendingEdits,
                                              done |-> 0],
                                !.pendingEdits = <<>>,
                                !.timer = IF l = "timer" THEN FALSE ELSE client.timer]
    /\ UNCHANGED << files, now, batchVars, gridVars, callVars >>
\* the timer set by handleAfterChange fires
TimerFires == client.timer /\ TakeQueue("timer")
\* lines 249-267: the save signal changes and the effect calls flushPendingEdits
flushPendingEdits == TakeQueue("flush")

\* the ways a call to the backend may end: it resolves or it rejects
SyncOutcomes == BOOLEAN

\* lines 226-238 and 254-260: one turn of the for loop; the edit is written by
\* the backend, or the call fails and the edit goes back to the queue
SyncNextEdit(l) ==
    /\ client.loops[l].pc = "loop"
    /\ IF client.loops[l].done = Len(client.loops[l].edits)
       THEN /\ client' = [client EXCEPT !.loops[l] = IdleRoutine]
            /\ UNCHANGED files
       ELSE \E ok \in SyncOutcomes :
            \E edit \in {client.loops[l].edits[client.loops[l].done + 1]} :
            \E r \in {updateCell(files, UploadPath, EditSheet, edit.row, edit.col,
                                 edit.value)} :
               IF ok /\ r.ok
               THEN /\ files' = [files EXCEPT ![UploadPath] = r.workbook]
                    /\ client' = [client EXCEPT !.loops[l].done = client.loops[l].done + 1,
                                                !.arrived = Append(client.arrived, edit)]
               ELSE /\ client' = [client EXCEPT
                                     !.loops[l].done = client.loops[l].done + 1,
                                     !.pendingEdits = Append(client.pendingEdits, edit)]
                    /\ UNCHANGED files
    /\ UNCHANGED << now, batchVars, gridVars, callVars >>

NextEdits ==
    \/ handleAfterChange
    \/ TimerFires
    \/ flushPendingEdits
    \/ \E l \in Routines : SyncNextEdit(l)
SpecEdits == InitEdits /\ [][NextEdits]_vars

\* the edits a routine still has to send
Remaining(l) ==
    {client.loops[l].edits[k] :
        k \in (client.loops[l].done + 1)..Len(client.loops[l].edits)}
Held == {client.pendingEdits[k] : k \in 1..Len(client.pendingEdits)}
        \cup UNION {Remaining(l) : l \in Routines}
Arrived == {client.arrived[k] : k \in 1..Len(client.arrived)}
Quiet == client.pendingEdits = <<>> /\ \A l \in Routines : client.loops[l].pc = "idle"

\* C29: every edit the user made is in the queue, with a routine that still
\* has to send it, or written by the backend; the edits of one cell are
\* written in the order they were made; and when the queue is empty and no
\* routine is at work, each cell the user edited holds, in the stored
\* workbook, the user's latest value for it.
C29_EditsArriveInOrder ==
    client.mounted =>
        /\ \A n \in 1..client.made :
              \E e \in Held \cup Arrived : e.value = Num(n)
        /\ \A j \in 1..Len(client.arrived), k \in 1..Len(client.arrived) :
              (/\ j < k
               /\ client.arrived[j].row = client.arrived[k].row
               /\ client.arrived[j].col = client.arrived[k].col) =>
                  client.arrived[j].value.n < client.arrived[k].value.n
        /\ Quiet =>
              \A cell \in GridCells :
                  client.grid[cell] # 0 =>
                      Get(files[UploadPath][getWorksheet(files[UploadPath], EditSheet)],
                          cell[1] + 1, cell[2] + 1) = Num(client.grid[cell])

--------------------------------------------------------------------------
(* The window loading of the client's Spreadsheet component: the effect that
   runs when the workbook or the sheet changes, the scroll handler with its
   debounce timer, and the requests for a window that are on their way.  The
   grid's data is kept as the sheet it was read from, the window it covers
   and the first cell of that window. *)

MaxFetches == 4
SCROLL_BUFFER == 30
VisibleRows == 20
ScrollRows == {0, 40}
ViewSheets == {"Data", "Notes"}
EmptyData == [from |-> "", window |-> NoWindow, first |-> Null]
InitialWindow == [rowStart |-> 1, rowEnd |-> 100, colStart |-> 1, colEnd |-> 100]

\* lines 59-80: the synchronous part of fetchDataWindow, up to the await; c
\* is the component's state and sheetId the sheet of the callback's closure
fetchDataWindow(c, sheetId, window, force) ==
    IF c.loading
    THEN c
    ELSE IF ~force /\ c.currentWindow = window
         THEN c
         ELSE [c EXCEPT !.loading = TRUE,
                        !.issued = c.issued + 1,
                        !.inflight = c.inflight \cup
                            {[id |-> c.issued + 1, sheetId |-> sheetId,
                              window |-> window]}]

\* lines 272-297: the effect of a new workbook or sheet
LoadEffect(c, sheetId) ==
    fetchDataWindow([c EXCEPT !.sheetId = sheetId,
                              !.data = EmptyData,
                              !.metadata = NoMeta,
                              !.currentWindow = NoWindow,
                              !.loading = FALSE],
                    sheetId, InitialWindow, TRUE)

InitView ==
    /\ files = [p \in {UploadPath} |-> BookTwo]
    /\ now = 1
    /\ InitBatchVars
    /\ InitGridVars
    /\ InitCallVars
    /\ client = LoadEffect([mounted |-> TRUE, sheetId |-> "", data |-> EmptyData,
                            metadata |-> NoMeta, currentWindow |-> NoWindow,
                            loading |-> FALSE, previousViewport |-> 0,
                            scrollTimer |-> [set |-> FALSE, sheetId |-> ""],
                            inflight |-> {}, issued |-> 0],
                           "Data")

\* the parent passes another sheet: lines 272-297
SheetChanges ==
    /\ client.issued < MaxFetches
    /\ \E s \in ViewSheets \ {client.sheetId} :
          client' = LoadEffect(client, s)
    /\ UNCHANGED << files, now, batchVars, gridVars, callVars >>

\* lines 143-152: a scroll event starts the debounce timer
requestWindow ==
    /\ client.metadata # NoMeta
    /\ ~client.loading
    /\ client.metadata.totalRows # 0 /\ client.metadata.totalColumns # 0
    /\ client' = [client EXCEPT !.scrollTimer = [set |-> TRUE,
                                                 sheetId |-> client.sheetId]]
    /\ UNCHANGED << files, now, batchVars, gridVars, callVars >>

\* lines 152-190: the debounce timer fires with the grid scrolled to a row
ScrollTimerFires ==
    /\ client.scrollTimer.set
    /\ client.issued < MaxFetches
    /\ client.metadata # NoMeta
    /\ \E firstVisibleRow \in ScrollRows :
          LET lastVisibleRow == firstVisibleRow + VisibleRows - 1
              rowStart == Max({1, firstVisibleRow - SCROLL_BUFFER + 1})
              rowEnd == Min({client.metadata.totalRows,
                             lastVisibleRow + SCROLL_BUFFER + 1})
              fired == [client EXCEPT !.scrollTimer.set = FALSE]
          IN  IF client.previousViewport = firstVisibleRow
              THEN client' = fired
              ELSE client' =
                     fetchDataWindow([fired EXCEPT !.previousViewport = firstVisibleRow],
                                     client.scrollTimer.sheetId,
                                     [rowStart |-> rowStart, rowEnd |-> rowEnd,
                                      colStart |-> 1, colEnd |-> 100],
                                     FALSE)
    /\ UNCHANGED << files, now, batchVars, gridVars, callVars >>

\* lines 84-133: the response of one request arrives
WindowArrives ==
    /\ \E f \in client.inflight :
       \E r \in {getWindowedSheetData(files, UploadPath, f.sheetId, f.window.rowStart,
                                      f.window.rowEnd, f.window.colStart,
                                      f.window.colEnd)} :
          IF r.ok
          THEN client' = [client EXCEPT
                             !.inflight = client.inflight \ {f},
                             !.metadata = r.meta,
                             !.data = [from |-> r.meta.sheetName,
                                       window |-> f.window,
                                       first |-> r.data[1][1]],
                             !.currentWindow = f.window,
                             !.loading = FALSE]
          ELSE client' = [client EXCEPT !.inflight = client.inflight \ {f},
                                        !.loading = FALSE]
    /\ UNCHANGED << files, now, batchVars, gridVars, callVars >>

NextView ==
    \/ SheetChanges
    \/ requestWindow
    \/ ScrollTimerFires
    \/ WindowArrives
SpecView == InitView /\ [][NextView]_vars

\* C30: the grid's data and currentWindow are empty or were read from the
\* sheet that is active now, never from the sheet that was active before,
\* and at most one request for a window is on its way.
C30_WindowOfTheActiveSheet ==
    client.mounted =>
        /\ Cardinality(client.inflight) <= 1
        /\ client.data.from \in {"", client.sheetId}
        /\ client.currentWindow # NoWindow => client.data.from = client.sheetId

====
